---- MODULE Spec2Model ----
(***************************************************************************)
(* Packet framing layer of the opus-codec crate: the safe wrappers of      *)
(* src/src/packet.rs over the bundled libopus packet routines.             *)
(*                                                                         *)
(* A packet is a sequence of bytes (0..255), 1-based in TLA+; an offset    *)
(* "pos" below is the 0-based offset of a C pointer into it, so that       *)
(* *data is data[pos + 1].                                                 *)
(*                                                                         *)
(* The wrappers are translated from src/src/packet.rs.  The libopus        *)
(* routines they call (opus_packet_parse, opus_packet_pad, ...) are C code *)
(* vendored under opus/, outside src/; they are modelled after the framing *)
(* format of spec.md sections 4.1, 4.2 and 6 (RFC 6716 section 3).         *)
(***************************************************************************)
EXTENDS Integers, Sequences, FiniteSets, TLC

VARIABLES
    buf,    \* the caller's byte buffer (its whole capacity)
    plen,   \* logical length of the packet held in buf[1..plen]
    op,     \* name of the last wrapper called ("none" after Init)
    arg,    \* arguments of the last call: [len, new_len, nb_streams]
    res,    \* result of the last call (see Ok / Err)
    ffi,    \* libopus functions the last call invoked, in order
    pre,    \* buf as it was before the last call
    repk,   \* the OpusRepacketizer a Repacketizer owns (its field rp)
    mem,    \* the caller's packet buffers, which the repacketizer points into
    pushed, \* the packets pushed with success since new or the last reset
    heap,   \* the native states libopus has created, by handle
    objs,   \* the wrapper values that are alive, each with its raw handle
    native  \* the codec state behind each handle (settings, coding history)

rpvars == <<repk, mem, pushed>>

natvars == <<heap, objs, native>>

vars == <<buf, plen, op, arg, res, ffi, pre, repk, mem, pushed, heap, objs, native>>

(***************************************************************************)
(* Bounds of the model.                                                    *)
(***************************************************************************)
MaxHdr == 2         \* header bytes drawn freely after the TOC byte
MaxPayload == 3     \* payload lengths 0..MaxPayload of the short packets
MaxPadHdr == 1      \* header bytes of the packets to pad
MaxPadPayload == 3  \* payload lengths 0..MaxPadPayload of the packets to pad
MaxSlack == 2       \* spare bytes of the buffer after the packet
MaxStreams == 2     \* stream counts 1..MaxStreams of the multistream calls

(***************************************************************************)
(* libopus error codes (opus_defines.h), as used by src/src/error.rs.      *)
(***************************************************************************)
OPUS_OK == 0
OPUS_BAD_ARG == -1
OPUS_BUFFER_TOO_SMALL == -2
OPUS_INTERNAL_ERROR == -3
OPUS_INVALID_PACKET == -4
OPUS_UNIMPLEMENTED == -5
OPUS_INVALID_STATE == -6
OPUS_ALLOC_FAIL == -7

\* enum Error: the seven named variants and Unknown(code)
Error(kind) == [kind |-> kind, code |-> 0]

BadArg == Error("BadArg")

InternalError == Error("InternalError")

InvalidPacket == Error("InvalidPacket")

NoError == Error("None")

\* Error::from_code
from_code(code) ==
    CASE code = OPUS_BAD_ARG -> BadArg
      [] code = OPUS_BUFFER_TOO_SMALL -> Error("BufferTooSmall")
      [] code = OPUS_INTERNAL_ERROR -> InternalError
      [] code = OPUS_INVALID_PACKET -> InvalidPacket
      [] code = OPUS_UNIMPLEMENTED -> Error("Unimplemented")
      [] code = OPUS_INVALID_STATE -> Error("InvalidState")
      [] code = OPUS_ALLOC_FAIL -> Error("AllocFail")
      [] OTHER -> [kind |-> "Unknown", code |-> code]

\* to_code answering OPUS_INTERNAL_ERROR for a code it has no name for
to_code_unknown_as_internal(self) ==
    CASE self.kind = "BadArg" -> OPUS_BAD_ARG
      [] self.kind = "BufferTooSmall" -> OPUS_BUFFER_TOO_SMALL
      [] self.kind = "InternalError" -> OPUS_INTERNAL_ERROR
      [] self.kind = "InvalidPacket" -> OPUS_INVALID_PACKET
      [] self.kind = "Unimplemented" -> OPUS_UNIMPLEMENTED
      [] self.kind = "InvalidState" -> OPUS_INVALID_STATE
      [] self.kind = "AllocFail" -> OPUS_ALLOC_FAIL
      [] OTHER -> OPUS_INTERNAL_ERROR

\* Error::to_code
to_code(self) ==
    CASE self.kind = "BadArg" -> OPUS_BAD_ARG
      [] self.kind = "BufferTooSmall" -> OPUS_BUFFER_TOO_SMALL
      [] self.kind = "InternalError" -> OPUS_INTERNAL_ERROR
      [] self.kind = "InvalidPacket" -> OPUS_INVALID_PACKET
      [] self.kind = "Unimplemented" -> OPUS_UNIMPLEMENTED
      [] self.kind = "InvalidState" -> OPUS_INVALID_STATE
      [] self.kind = "AllocFail" -> OPUS_ALLOC_FAIL
      [] self.kind = "Unknown" -> self.code

\* i32::try_from(usize) succeeds exactly up to i32::MAX
fits_i32(n) == n <= 2147483647

(***************************************************************************)
(* Results of the wrappers: Result<T>.  One record shape for every call:   *)
(* val is the scalar payload (count, length, name), and toc,               *)
(* payload_offset, frames are the triple of packet_parse.                  *)
(***************************************************************************)
NoVal == -1

Err(e) ==
    [ok |-> FALSE, err |-> e, val |-> NoVal, toc |-> NoVal,
     payload_offset |-> NoVal, frames |-> <<>>]

Ok(v) ==
    [ok |-> TRUE, err |-> NoError, val |-> v, toc |-> NoVal,
     payload_offset |-> NoVal, frames |-> <<>>]

OkParse(t, off, fr) ==
    [ok |-> TRUE, err |-> NoError, val |-> NoVal, toc |-> t,
     payload_offset |-> off, frames |-> fr]

(***************************************************************************)
(* Sequence helpers.                                                       *)
(***************************************************************************)
RECURSIVE SumSeq(_)
SumSeq(s) == IF s = <<>> THEN 0 ELSE Head(s) + SumSeq(Tail(s))

Slice(s, start, size) == SubSeq(s, start + 1, start + size)

Repeat(x, n) == [i \in 1..n |-> x]

\* F applied to the value of v, which is computed once however often F
\* reads its argument
Bind(v, F(_)) == CHOOSE r \in {F(x) : x \in {v}} : TRUE

(***************************************************************************)
(* libopus: TOC byte queries.                                              *)
(***************************************************************************)
\* opus_packet_get_samples_per_frame(data, Fs)
opus_packet_get_samples_per_frame(toc, Fs) ==
    IF toc >= 128
    THEN (Fs * (2 ^ ((toc \div 8) % 4))) \div 400
    ELSE IF (toc \div 32) % 4 = 3
    THEN (IF (toc \div 8) % 2 = 1 THEN Fs \div 50 ELSE Fs \div 100)
    ELSE IF (toc \div 8) % 4 = 3
    THEN (Fs * 60) \div 1000
    ELSE (Fs * (2 ^ ((toc \div 8) % 4))) \div 100

\* opus_packet_get_bandwidth(data), as the name of the OPUS_BANDWIDTH_* value
opus_packet_get_bandwidth(toc) ==
    IF toc >= 128
    THEN CASE (toc \div 32) % 4 = 0 -> "NARROWBAND"
           [] (toc \div 32) % 4 = 1 -> "WIDEBAND"
           [] (toc \div 32) % 4 = 2 -> "SUPERWIDEBAND"
           [] OTHER -> "FULLBAND"
    ELSE IF (toc \div 32) % 4 = 3
    THEN (IF (toc \div 16) % 2 = 1 THEN "FULLBAND" ELSE "SUPERWIDEBAND")
    ELSE CASE (toc \div 32) % 4 = 0 -> "NARROWBAND"
           [] (toc \div 32) % 4 = 1 -> "MEDIUMBAND"
           [] OTHER -> "WIDEBAND"

\* opus_packet_get_nb_channels(data)
opus_packet_get_nb_channels(toc) == IF (toc \div 4) % 2 = 1 THEN 2 ELSE 1

\* opus_packet_get_nb_frames(packet, len)
opus_packet_get_nb_frames(data, len) ==
    IF len < 1 THEN OPUS_BAD_ARG
    ELSE IF data[1] % 4 = 0 THEN 1
    ELSE IF data[1] % 4 # 3 THEN 2
    ELSE IF len < 2 THEN OPUS_INVALID_PACKET
    ELSE data[2] % 64

\* opus_packet_get_nb_samples(packet, len, Fs)
opus_packet_get_nb_samples(data, len, Fs) ==
    LET count == opus_packet_get_nb_frames(data, len)
        samples == count * opus_packet_get_samples_per_frame(data[1], Fs)
    IN  IF count < 0 THEN count
        ELSE IF samples * 25 > Fs * 3 THEN OPUS_INVALID_PACKET
        ELSE samples

(***************************************************************************)
(* libopus: opus_packet_parse_impl.                                        *)
(***************************************************************************)
\* parse_size: a frame length of one byte (0..251) or two (252..1275)
parse_size(data, pos, len) ==
    IF len < 1 THEN [bytes |-> -1, size |-> -1]
    ELSE IF data[pos + 1] < 252 THEN [bytes |-> 1, size |-> data[pos + 1]]
    ELSE IF len < 2 THEN [bytes |-> -1, size |-> -1]
    ELSE [bytes |-> 2, size |-> 4 * data[pos + 2] + data[pos + 1]]

\* the padding-length loop of code 3: each byte 255 adds 254 and continues
RECURSIVE parse_padding(_, _, _, _)
parse_padding(data, pos, len, pad) ==
    IF len <= 0 THEN [ok |-> FALSE, pos |-> pos, len |-> len, pad |-> pad]
    ELSE LET p == data[pos + 1]
             tmp == IF p = 255 THEN 254 ELSE p
         IN  IF p = 255
             THEN parse_padding(data, pos + 1, len - 1 - tmp, pad + tmp)
             ELSE [ok |-> TRUE, pos |-> pos + 1, len |-> len - 1 - tmp,
                   pad |-> pad + tmp]

\* the VBR loop of code 3: one length per frame except the last
RECURSIVE parse_vbr_sizes(_, _, _, _, _, _)
parse_vbr_sizes(data, pos, len, last_size, todo, sizes) ==
    IF todo = 0
    THEN [ok |-> TRUE, pos |-> pos, len |-> len, last_size |-> last_size,
          sizes |-> sizes]
    ELSE LET ps == parse_size(data, pos, len)
             len2 == len - ps.bytes
         IN  IF ps.size < 0 \/ ps.size > len2
             THEN [ok |-> FALSE, pos |-> pos, len |-> len2,
                   last_size |-> last_size, sizes |-> sizes]
             ELSE parse_vbr_sizes(data, pos + ps.bytes, len2,
                                  last_size - (ps.bytes + ps.size),
                                  todo - 1, Append(sizes, ps.size))

ParseFail(code) ==
    [n |-> code, toc |-> 0, size |-> <<>>, payload_offset |-> 0,
     packet_offset |-> 0, pad |-> 0]

\* the tail of opus_packet_parse_impl, shared by the four frame-count codes:
\* the size of the last frame, the 1275-byte limit, the offsets
parse_finish(data, toc, pos, len, last_size, sizes, count, cbr, pad, sd) ==
    LET ps == parse_size(data, pos, len)
        len2 == len - ps.bytes
    IN  IF sd
        THEN IF ps.size < 0 \/ ps.size > len2 THEN ParseFail(OPUS_INVALID_PACKET)
             ELSE IF cbr /\ ps.size * count > len2
             THEN ParseFail(OPUS_INVALID_PACKET)
             ELSE IF ~cbr /\ ps.bytes + ps.size > last_size
             THEN ParseFail(OPUS_INVALID_PACKET)
             ELSE LET all == IF cbr THEN Repeat(ps.size, count)
                             ELSE Append(sizes, ps.size)
                  IN  [n |-> count, toc |-> toc, size |-> all,
                       payload_offset |-> pos + ps.bytes,
                       packet_offset |-> pad + pos + ps.bytes + SumSeq(all),
                       pad |-> pad]
        ELSE IF last_size > 1275 THEN ParseFail(OPUS_INVALID_PACKET)
             ELSE LET all == Append(sizes, last_size)
                  IN  [n |-> count, toc |-> toc, size |-> all,
                       payload_offset |-> pos,
                       packet_offset |-> pad + pos + SumSeq(all),
                       pad |-> pad]

\* frame-count code 3 of opus_packet_parse_impl; pos, len are after the TOC
parse_code3(data, toc, len0, sd) ==
    IF len0 < 1 THEN ParseFail(OPUS_INVALID_PACKET)
    ELSE
    LET ch == data[2]
        count == ch % 64
        framesize == opus_packet_get_samples_per_frame(toc, 48000)
        padded == (ch \div 64) % 2 = 1
        pp == IF padded THEN parse_padding(data, 2, len0 - 1, 0)
              ELSE [ok |-> TRUE, pos |-> 2, len |-> len0 - 1, pad |-> 0]
        cbr == ch < 128
    IN  IF count <= 0 \/ framesize * count > 5760
        THEN ParseFail(OPUS_INVALID_PACKET)
        ELSE IF ~pp.ok \/ pp.len < 0 THEN ParseFail(OPUS_INVALID_PACKET)
        ELSE IF ~cbr
        THEN LET v == parse_vbr_sizes(data, pp.pos, pp.len, pp.len,
                                      count - 1, <<>>)
             IN  IF ~v.ok \/ v.last_size < 0
                 THEN ParseFail(OPUS_INVALID_PACKET)
                 ELSE parse_finish(data, toc, v.pos, v.len, v.last_size,
                                   v.sizes, count, FALSE, pp.pad, sd)
        ELSE IF ~sd
        THEN LET last_size == pp.len \div count
             IN  IF last_size * count # pp.len
                 THEN ParseFail(OPUS_INVALID_PACKET)
                 ELSE parse_finish(data, toc, pp.pos, pp.len, last_size,
                                   Repeat(last_size, count - 1), count, TRUE,
                                   pp.pad, sd)
        ELSE parse_finish(data, toc, pp.pos, pp.len, pp.len, <<>>, count,
                          TRUE, pp.pad, sd)

\* opus_packet_parse_impl(data, len, self_delimited, ...): n is the frame
\* count or a negative error code, size the n frame sizes; frame i starts
\* at offset payload_offset + size[1] + ... + size[i-1]
opus_packet_parse_impl(data, len, sd) ==
    IF len < 0 THEN ParseFail(OPUS_BAD_ARG)
    ELSE IF len = 0 THEN ParseFail(OPUS_INVALID_PACKET)
    ELSE
    LET toc == data[1]
        len0 == len - 1
    IN  CASE toc % 4 = 0 ->
               parse_finish(data, toc, 1, len0, len0, <<>>, 1, FALSE, 0, sd)
          [] toc % 4 = 1 ->
               IF sd
               THEN parse_finish(data, toc, 1, len0, len0, <<>>, 2, TRUE, 0, sd)
               ELSE IF len0 % 2 = 1 THEN ParseFail(OPUS_INVALID_PACKET)
               ELSE parse_finish(data, toc, 1, len0, len0 \div 2,
                                 <<len0 \div 2>>, 2, TRUE, 0, sd)
          [] toc % 4 = 2 ->
               LET ps == parse_size(data, 1, len0)
                   len2 == len0 - ps.bytes
               IN  IF ps.size < 0 \/ ps.size > len2
                   THEN ParseFail(OPUS_INVALID_PACKET)
                   ELSE parse_finish(data, toc, 1 + ps.bytes, len2,
                                     len2 - ps.size, <<ps.size>>, 2, FALSE,
                                     0, sd)
          [] OTHER -> parse_code3(data, toc, len0, sd)

\* opus_packet_parse(data, len, out_toc, frames, size, payload_offset)
opus_packet_parse(data, len) == opus_packet_parse_impl(data, len, FALSE)

\* start offsets of the frames libopus reports (the frames[] pointers):
\* the frames follow each other from payload_offset on
frame_starts(off, sizes) ==
    SubSeq([i \in 1..Len(sizes) |-> off + SumSeq(SubSeq(sizes, 1, i - 1))],
           1, Len(sizes))

\* opus_packet_has_lbrr(packet, len): CELT-only packets have none; else
\* the LBRR flag bits of the first byte of the first frame
opus_packet_has_lbrr(data, len) ==
    LET toc == data[1]
        packet_frame_size == opus_packet_get_samples_per_frame(toc, 48000)
        nb_frames == IF packet_frame_size > 960 THEN packet_frame_size \div 960
                     ELSE 1
        p == opus_packet_parse(data, len)
        b == data[p.payload_offset + 1]
        mono == (b \div (2 ^ (7 - nb_frames))) % 2
        side == (b \div (2 ^ (6 - 2 * nb_frames))) % 2
    IN  IF toc >= 128 THEN 0
        ELSE IF p.n <= 0 THEN p.n
        ELSE IF p.size[1] = 0 THEN 0
        ELSE IF opus_packet_get_nb_channels(toc) = 2 /\ side = 1 THEN 1
        ELSE mono

(***************************************************************************)
(* libopus: the repacketizer (repacketizer.c), which opus_packet_pad and   *)
(* opus_packet_unpad are built on.  Its state is the TOC of the first      *)
(* packet, the frame duration and, per frame, a pointer and a length; a    *)
(* pointer is an offset into the buffer that was handed to cat.  The bytes *)
(* of a padding region are ignored (spec.md 4.2: their value is            *)
(* unspecified), so no packet extension is carried over.                   *)
(***************************************************************************)
\* opus_repacketizer_init
opus_repacketizer_init ==
    [toc |-> 0, nb_frames |-> 0, framesize |-> 0, frames |-> <<>>, len |-> <<>>]

\* opus_repacketizer_cat_impl(rp, data, len, self_delimited)
opus_repacketizer_cat_impl(rp, data, len, sd) ==
    IF len < 1 THEN [ret |-> OPUS_INVALID_PACKET, rp |-> rp]
    ELSE
    LET first == rp.nb_frames = 0
        rp1 == IF first
               THEN [rp EXCEPT !.toc = data[1],
                               !.framesize =
                                   opus_packet_get_samples_per_frame(data[1], 8000)]
               ELSE rp
        curr_nb_frames == opus_packet_get_nb_frames(data, len)
        p == opus_packet_parse_impl(data, len, sd)
    IN  IF ~first /\ rp.toc \div 4 # data[1] \div 4
        THEN [ret |-> OPUS_INVALID_PACKET, rp |-> rp]
        ELSE IF curr_nb_frames < 1
        THEN [ret |-> OPUS_INVALID_PACKET, rp |-> rp1]
        ELSE IF (curr_nb_frames + rp1.nb_frames) * rp1.framesize > 960
        THEN [ret |-> OPUS_INVALID_PACKET, rp |-> rp1]
        ELSE IF p.n < 1 THEN [ret |-> p.n, rp |-> rp1]
        ELSE [ret |-> OPUS_OK,
              rp |-> [rp1 EXCEPT
                         !.nb_frames = @ + curr_nb_frames,
                         !.frames = @ \o frame_starts(p.payload_offset, p.size),
                         !.len = @ \o p.size]]

\* opus_repacketizer_cat
opus_repacketizer_cat(rp, data, len) ==
    opus_repacketizer_cat_impl(rp, data, len, FALSE)

\* encode_size: the inverse of parse_size
encode_size(size) ==
    IF size < 252 THEN <<size>>
    ELSE <<252 + (size % 4), (size - (252 + (size % 4))) \div 4>>

RECURSIVE encode_sizes(_)
encode_sizes(lens) ==
    IF lens = <<>> THEN <<>>
    ELSE encode_size(Head(lens)) \o encode_sizes(Tail(lens))

\* bytes written at offset pos of data
WriteAt(data, pos, bytes) ==
    [k \in 1..Len(data) |->
        IF pos < k /\ k <= pos + Len(bytes) THEN bytes[k - pos] ELSE data[k]]

\* OPUS_MOVE(ptr, frames[i], len[i]) for each frame in turn, from ptr on.
\* The frames are read from src, or from data itself when the repacketizer
\* points into the buffer it writes (in-place unpadding): a byte of frame i
\* is then read after the moves of the frames before it, so a source byte
\* that lies in the part already written (before the frame's destination)
\* is read as written, and any other as it was
move_frames(data, src, aliased, ptr, starts, lens) ==
    LET n == Len(lens)
        dst == frame_starts(ptr, lens)
        last == ptr + SumSeq(lens)
        frame_of(k) == CHOOSE i \in 1..n : dst[i] < k /\ k <= dst[i] + lens[i]
        out[k \in 1..Len(data)] ==
            IF k <= ptr \/ k > last THEN data[k]
            ELSE LET i == frame_of(k)
                     s == starts[i] + (k - dst[i])
                 IN  IF ~aliased THEN src[s]
                     ELSE IF s <= dst[i] THEN out[s]
                     ELSE data[s]
    IN  out

BoolInt(b) == IF b THEN 1 ELSE 0

\* opus_repacketizer_out_range_impl(rp, begin, end, data + dst, maxlen,
\* self_delimited, pad, ...): the packet is written at offset dst of data;
\* ret is the length written or an error code
opus_repacketizer_out_range_impl(rp, begin, end, data, dst, maxlen, sd, pad, src, aliased) ==
    IF begin < 0 \/ begin >= end \/ end > rp.nb_frames
    THEN [ret |-> OPUS_BAD_ARG, data |-> data]
    ELSE
    LET count == end - begin
        len == SubSeq(rp.len, begin + 1, end)
        frames == SubSeq(rp.frames, begin + 1, end)
        sdsize == IF sd THEN 1 + BoolInt(len[count] >= 252) ELSE 0
        toc0 == rp.toc - (rp.toc % 4)
        \* codes 0, 1 and 2
        tot12 == IF count = 1 THEN sdsize + len[1] + 1
                 ELSE IF count = 2 /\ len[2] = len[1] THEN sdsize + 2 * len[1] + 1
                 ELSE IF count = 2
                 THEN sdsize + len[1] + len[2] + 2 + BoolInt(len[1] >= 252)
                 ELSE sdsize
        hdr12 == IF count = 1 THEN <<toc0>>
                 ELSE IF count = 2 /\ len[2] = len[1] THEN <<toc0 + 1>>
                 ELSE IF count = 2 THEN <<toc0 + 2>> \o encode_size(len[1])
                 ELSE <<>>
        \* code 3
        code3 == count > 2 \/ (pad /\ tot12 < maxlen)
        vbr == \E i \in 2..count : len[i] # len[1]
        tot3 == IF vbr
                THEN sdsize + 2 + SumSeq(SubSeq(len, 1, count - 1))
                     + Len(encode_sizes(SubSeq(len, 1, count - 1))) + len[count]
                ELSE sdsize + count * len[1] + 2
        pad_amount == IF pad THEN maxlen - tot3 ELSE 0
        nb_255s == (pad_amount - 1) \div 255
        padhdr == IF pad_amount # 0
                  THEN Repeat(255, nb_255s) \o <<pad_amount - 255 * nb_255s - 1>>
                  ELSE <<>>
        hdr3 == <<toc0 + 3,
                  count + (IF vbr THEN 128 ELSE 0)
                        + (IF pad_amount # 0 THEN 64 ELSE 0)>>
                \o padhdr
                \o (IF vbr THEN encode_sizes(SubSeq(len, 1, count - 1)) ELSE <<>>)
        hdr == (IF code3 THEN hdr3 ELSE hdr12)
               \o (IF sd THEN encode_size(len[count]) ELSE <<>>)
        tot_size == IF code3 THEN tot3 + pad_amount ELSE tot12
        moved == move_frames(WriteAt(data, dst, hdr), src, aliased,
                             dst + Len(hdr), frames, len)
        written == Len(hdr) + SumSeq(len)
        filled == IF pad
                  THEN WriteAt(moved, dst + written, Repeat(0, maxlen - written))
                  ELSE moved
    IN  IF count <= 2 /\ tot12 > maxlen
        THEN [ret |-> OPUS_BUFFER_TOO_SMALL, data |-> data]
        ELSE IF code3 /\ tot3 > maxlen
        THEN [ret |-> OPUS_BUFFER_TOO_SMALL, data |-> WriteAt(data, dst, hdr12)]
        ELSE IF code3 /\ pad_amount # 0 /\ tot3 + nb_255s + 1 > maxlen
        THEN [ret |-> OPUS_BUFFER_TOO_SMALL,
              data |-> WriteAt(data, dst, <<toc0 + 3, hdr3[2]>>)]
        ELSE [ret |-> tot_size, data |-> filled]

\* opus_packet_pad_impl(data, len, new_len, pad, NULL, 0): the packet is
\* copied, the copy is parsed into a repacketizer and written back as a
\* packet of new_len bytes
opus_packet_pad_impl(data, len, new_len, pad) ==
    IF len < 1 THEN [ret |-> OPUS_BAD_ARG, data |-> data]
    ELSE IF len = new_len THEN [ret |-> OPUS_OK, data |-> data]
    ELSE IF len > new_len THEN [ret |-> OPUS_BAD_ARG, data |-> data]
    ELSE
    LET copy == SubSeq(data, 1, len)
    IN  Bind(opus_repacketizer_cat(opus_repacketizer_init, copy, len),
             LAMBDA c :
                 IF c.ret # OPUS_OK THEN [ret |-> c.ret, data |-> data]
                 ELSE opus_repacketizer_out_range_impl(
                          c.rp, 0, c.rp.nb_frames, data, 0, new_len, FALSE, pad,
                          copy, FALSE))

\* opus_packet_pad(data, len, new_len)
opus_packet_pad(data, len, new_len) ==
    Bind(opus_packet_pad_impl(data, len, new_len, TRUE),
         LAMBDA r : [ret |-> IF r.ret > 0 THEN OPUS_OK ELSE r.ret,
                     data |-> r.data])

\* opus_packet_unpad(data, len): the packet is parsed into a repacketizer
\* that points into data, and written back over itself without padding
opus_packet_unpad(data, len) ==
    IF len < 1 THEN [ret |-> OPUS_BAD_ARG, data |-> data]
    ELSE
    Bind(opus_repacketizer_cat(opus_repacketizer_init, data, len),
         LAMBDA c :
             IF c.ret < 0 THEN [ret |-> c.ret, data |-> data]
             ELSE opus_repacketizer_out_range_impl(
                      c.rp, 0, c.rp.nb_frames, data, 0, len, FALSE, FALSE,
                      data, TRUE))

(***************************************************************************)
(* libopus: the multistream variants.  A multistream packet is nb_streams  *)
(* packets one after the other, all but the last self-delimited.           *)
(***************************************************************************)
\* the loop of opus_multistream_packet_pad that seeks to the last stream
RECURSIVE ms_seek(_, _, _, _)
ms_seek(data, off, len, todo) ==
    IF todo <= 0 THEN [ret |-> OPUS_OK, off |-> off, len |-> len]
    ELSE IF len <= 0 THEN [ret |-> OPUS_INVALID_PACKET, off |-> off, len |-> len]
    ELSE Bind(opus_packet_parse_impl(SubSeq(data, off + 1, off + len), len,
                                     TRUE),
              LAMBDA p :
                  IF p.n < 0 THEN [ret |-> p.n, off |-> off, len |-> len]
                  ELSE ms_seek(data, off + p.packet_offset,
                               len - p.packet_offset, todo - 1))

\* opus_multistream_packet_pad(data, len, new_len, nb_streams)
opus_multistream_packet_pad(data, len, new_len, nb_streams) ==
    IF len < 1 THEN [ret |-> OPUS_BAD_ARG, data |-> data]
    ELSE IF len = new_len THEN [ret |-> OPUS_OK, data |-> data]
    ELSE IF len > new_len THEN [ret |-> OPUS_BAD_ARG, data |-> data]
    ELSE
    LET amount == new_len - len
    IN  Bind(ms_seek(data, 0, len, nb_streams - 1),
             LAMBDA k :
                 IF k.ret < 0 THEN [ret |-> k.ret, data |-> data]
                 ELSE Bind(opus_packet_pad(SubSeq(data, k.off + 1, Len(data)),
                                           k.len, k.len + amount),
                           LAMBDA r : [ret |-> r.ret,
                                       data |-> SubSeq(data, 1, k.off)
                                                \o r.data]))

\* the loop of opus_multistream_packet_unpad: stream s is read at offset
\* off and written back, without padding, at offset dst of the same buffer
RECURSIVE ms_unpad_streams(_, _, _, _, _, _)
ms_unpad_streams(data, off, len, dst, s, nb_streams) ==
    IF s >= nb_streams THEN [ret |-> dst, data |-> data]
    ELSE IF len <= 0 THEN [ret |-> OPUS_INVALID_PACKET, data |-> data]
    ELSE
    LET sd == s # nb_streams - 1
        sub == SubSeq(data, off + 1, off + len)
        cat(p) == opus_repacketizer_cat_impl(opus_repacketizer_init, sub,
                                             p.packet_offset, sd)
        moved(c) == [c.rp EXCEPT !.frames = [i \in 1..Len(@) |-> @[i] + off]]
        out(rp) == opus_repacketizer_out_range_impl(
                       rp, 0, rp.nb_frames, data, dst, len, sd, FALSE, data,
                       TRUE)
    IN  Bind(opus_packet_parse_impl(sub, len, sd), LAMBDA p :
            IF p.n < 0 THEN [ret |-> p.n, data |-> data]
            ELSE Bind(cat(p), LAMBDA c :
                IF c.ret < 0 THEN [ret |-> c.ret, data |-> data]
                ELSE Bind(moved(c), LAMBDA rp : Bind(out(rp), LAMBDA o :
                    IF o.ret < 0 THEN o
                    ELSE Bind(o.data, LAMBDA written :
                        ms_unpad_streams(written, off + p.packet_offset,
                                         len - p.packet_offset, dst + o.ret,
                                         s + 1, nb_streams))))))

\* opus_multistream_packet_unpad(data, len, nb_streams)
opus_multistream_packet_unpad(data, len, nb_streams) ==
    IF len < 1 THEN [ret |-> OPUS_BAD_ARG, data |-> data]
    ELSE ms_unpad_streams(data, 0, len, 0, 0, nb_streams)

(***************************************************************************)
(* src/src/packet.rs: the safe wrappers.  Each returns the Result in r and *)
(* the libopus functions it invoked in calls.                              *)
(***************************************************************************)
Ret(r, calls) == [r |-> r, calls |-> calls]

\* packet_bandwidth
packet_bandwidth(packet) ==
    IF packet = <<>> THEN Ret(Err(BadArg), <<>>)
    ELSE Ret(Ok(opus_packet_get_bandwidth(packet[1])),
             <<"opus_packet_get_bandwidth">>)

\* packet_channels
packet_channels(packet) ==
    IF packet = <<>> THEN Ret(Err(BadArg), <<>>)
    ELSE Ret(Ok(opus_packet_get_nb_channels(packet[1])),
             <<"opus_packet_get_nb_channels">>)

\* packet_nb_frames taking a count of 0 for a failure (n <= 0)
packet_nb_frames_reject_zero(packet) ==
    IF packet = <<>> THEN Ret(Err(BadArg), <<>>)
    ELSE IF ~fits_i32(Len(packet)) THEN Ret(Err(BadArg), <<>>)
    ELSE LET n == opus_packet_get_nb_frames(packet, Len(packet))
         IN  Ret(IF n < 0 THEN Err(from_code(n))
                 ELSE IF n = 0 THEN Err(InvalidPacket) ELSE Ok(n),
                 <<"opus_packet_get_nb_frames">>)

\* packet_nb_frames
packet_nb_frames(packet) ==
    IF packet = <<>> THEN Ret(Err(BadArg), <<>>)
    ELSE IF ~fits_i32(Len(packet)) THEN Ret(Err(BadArg), <<>>)
    ELSE LET n == opus_packet_get_nb_frames(packet, Len(packet))
         IN  Ret(IF n < 0 THEN Err(from_code(n)) ELSE Ok(n),
                 <<"opus_packet_get_nb_frames">>)

\* packet_nb_samples
packet_nb_samples(packet, sample_rate) ==
    IF packet = <<>> THEN Ret(Err(BadArg), <<>>)
    ELSE IF ~fits_i32(Len(packet)) THEN Ret(Err(BadArg), <<>>)
    ELSE LET n == opus_packet_get_nb_samples(packet, Len(packet), sample_rate)
         IN  Ret(IF n < 0 THEN Err(from_code(n)) ELSE Ok(n),
                 <<"opus_packet_get_nb_samples">>)

\* packet_samples_per_frame
packet_samples_per_frame(packet, sample_rate) ==
    IF packet = <<>> THEN Ret(Err(BadArg), <<>>)
    ELSE LET n == opus_packet_get_samples_per_frame(packet[1], sample_rate)
         IN  Ret(IF n <= 0 THEN Err(InvalidPacket) ELSE Ok(n),
                 <<"opus_packet_get_samples_per_frame">>)

\* packet_has_lbrr
packet_has_lbrr(packet) ==
    IF packet = <<>> THEN Ret(Err(BadArg), <<>>)
    ELSE IF ~fits_i32(Len(packet)) THEN Ret(Err(BadArg), <<>>)
    ELSE LET v == opus_packet_has_lbrr(packet, Len(packet))
         IN  Ret(IF v < 0 THEN Err(from_code(v)) ELSE Ok(v # 0),
                 <<"opus_packet_has_lbrr">>)

\* the loop of packet_parse with one of its steps changed: frames(kept)
\* are the slices pushed for the frame indices kept, frame i of lens[i] bytes
collect_frames_with(packet, starts, sizes, kept, lens) ==
    LET n == Len(sizes)
        overruns(i) == starts[i] < 0 \/ starts[i] + sizes[i] > Len(packet)
        rejected == {i \in 1..n : sizes[i] < 0 \/ (sizes[i] # 0 /\ overruns(i))}
        first == CHOOSE i \in rejected : \A j \in rejected : i <= j
    IN  IF rejected # {}
        THEN [err |-> IF sizes[first] < 0 THEN InternalError ELSE InvalidPacket,
              frames |-> <<>>]
        ELSE [err |-> NoError,
              frames |-> [k \in 1..Len(kept) |->
                             Slice(packet, starts[kept[k]], lens[kept[k]])]]

\* the loop skipping the frames of one byte too (size <= 1)
collect_frames_skip_le1(packet, starts, sizes) ==
    collect_frames_with(packet, starts, sizes,
        SelectSeq([i \in 1..Len(sizes) |-> i], LAMBDA i : sizes[i] > 1),
        sizes)

\* the loop without the skip of zero-length frames
collect_frames_keep_empty(packet, starts, sizes) ==
    collect_frames_with(packet, starts, sizes, [i \in 1..Len(sizes) |-> i],
        sizes)

\* the loop slicing each frame to the end of the packet (&packet[start..])
collect_frames_to_end(packet, starts, sizes) ==
    collect_frames_with(packet, starts, sizes,
        SelectSeq([i \in 1..Len(sizes) |-> i], LAMBDA i : sizes[i] # 0),
        [i \in 1..Len(sizes) |-> Len(packet) - starts[i]])

\* the loop leaving at the first zero-length frame (break for continue)
collect_frames_break(packet, starts, sizes) ==
    collect_frames_with(packet, starts, sizes,
        SelectSeq([i \in 1..Len(sizes) |-> i],
                  LAMBDA i : \A j \in 1..i : sizes[j] # 0),
        sizes)

\* the loop of packet_parse over the sizes and frame pointers libopus
\* filled in (lines 187-208), without recursion: the loop returns at the
\* first frame it rejects, skips the zero-length frames and pushes a slice
\* of the packet for each of the others
collect_frames(packet, starts, sizes) ==
    LET n == Len(sizes)
        overruns(i) == starts[i] < 0 \/ starts[i] + sizes[i] > Len(packet)
        rejected == {i \in 1..n : sizes[i] < 0 \/ (sizes[i] # 0 /\ overruns(i))}
        first == CHOOSE i \in rejected : \A j \in rejected : i <= j
        kept == SelectSeq([i \in 1..n |-> i], LAMBDA i : sizes[i] # 0)
    IN  IF rejected # {}
        THEN [err |-> IF sizes[first] < 0 THEN InternalError ELSE InvalidPacket,
              frames |-> <<>>]
        ELSE [err |-> NoError,
              frames |-> [k \in 1..Len(kept) |->
                             Slice(packet, starts[kept[k]], sizes[kept[k]])]]

\* packet_parse without the check of an empty packet
packet_parse_unchecked(packet) ==
    LET p == opus_packet_parse(packet, Len(packet))
        c == collect_frames(packet, frame_starts(p.payload_offset, p.size),
                            p.size)
    IN  Ret(IF p.n < 0 THEN Err(from_code(p.n))
            ELSE IF c.err # NoError THEN Err(c.err)
            ELSE IF p.payload_offset < 0 THEN Err(InternalError)
            ELSE OkParse(p.toc, p.payload_offset, c.frames),
            <<"opus_packet_parse">>)

\* packet_parse returning the packet's length for the payload offset
packet_parse_offset_len(packet) ==
    IF packet = <<>> THEN Ret(Err(BadArg), <<>>)
    ELSE LET r == packet_parse_unchecked(packet)
         IN  Ret(IF r.r.ok THEN OkParse(r.r.toc, Len(packet), r.r.frames)
                 ELSE r.r, r.calls)

\* packet_parse
packet_parse(packet) ==
    IF packet = <<>> THEN Ret(Err(BadArg), <<>>)
    ELSE IF ~fits_i32(Len(packet)) THEN Ret(Err(BadArg), <<>>)
    ELSE
    LET p == opus_packet_parse(packet, Len(packet))
        c == collect_frames(packet, frame_starts(p.payload_offset, p.size),
                            p.size)
    IN  Ret(IF p.n < 0 THEN Err(from_code(p.n))
            ELSE IF c.err # NoError THEN Err(c.err)
            ELSE IF p.payload_offset < 0 THEN Err(InternalError)
            ELSE OkParse(p.toc, p.payload_offset, c.frames),
            <<"opus_packet_parse">>)

\* a wrapper that may write the caller's buffer: the Result, the libopus
\* calls and the buffer afterwards
RetBuf(r, calls, data) == [r |-> r, calls |-> calls, data |-> data]

\* packet_pad without the check of new_len against the buffer
packet_pad_no_cap_check(packet, len, new_len) ==
    IF new_len < len
    THEN RetBuf(Err(BadArg), <<>>, packet)
    ELSE IF ~fits_i32(len) \/ ~fits_i32(new_len)
    THEN RetBuf(Err(BadArg), <<>>, packet)
    ELSE LET r == opus_packet_pad(packet, len, new_len)
         IN  RetBuf(IF r.ret # 0 THEN Err(from_code(r.ret)) ELSE Ok(NoVal),
                    <<"opus_packet_pad">>, r.data)

\* packet_pad passing the buffer's length to libopus for new_len
packet_pad_to_capacity(packet, len, new_len) ==
    IF new_len < len \/ new_len > Len(packet)
    THEN RetBuf(Err(BadArg), <<>>, packet)
    ELSE IF ~fits_i32(len) \/ ~fits_i32(new_len)
    THEN RetBuf(Err(BadArg), <<>>, packet)
    ELSE LET r == opus_packet_pad(packet, len, Len(packet))
         IN  RetBuf(IF r.ret # 0 THEN Err(from_code(r.ret)) ELSE Ok(NoVal),
                    <<"opus_packet_pad">>, r.data)

\* packet_pad reading the result as a length: a padded length is not 0 and
\* is returned as an error
packet_pad_len_as_error(packet, len, new_len) ==
    IF new_len < len \/ new_len > Len(packet)
    THEN RetBuf(Err(BadArg), <<>>, packet)
    ELSE IF ~fits_i32(len) \/ ~fits_i32(new_len)
    THEN RetBuf(Err(BadArg), <<>>, packet)
    ELSE Bind(opus_packet_pad_impl(packet, len, new_len, TRUE),
              LAMBDA r :
                  RetBuf(IF r.ret # 0 THEN Err(from_code(r.ret)) ELSE Ok(NoVal),
                         <<"opus_packet_pad">>, r.data))

\* packet_pad
packet_pad(packet, len, new_len) ==
    IF new_len < len \/ new_len > Len(packet)
    THEN RetBuf(Err(BadArg), <<>>, packet)
    ELSE IF ~fits_i32(len) \/ ~fits_i32(new_len)
    THEN RetBuf(Err(BadArg), <<>>, packet)
    ELSE LET r == opus_packet_pad(packet, len, new_len)
         IN  RetBuf(IF r.ret # 0 THEN Err(from_code(r.ret)) ELSE Ok(NoVal),
                    <<"opus_packet_pad">>, r.data)

\* packet_unpad passing the buffer's length to libopus for len
packet_unpad_whole_buffer(packet, len) ==
    IF len > Len(packet) THEN RetBuf(Err(BadArg), <<>>, packet)
    ELSE IF ~fits_i32(len) THEN RetBuf(Err(BadArg), <<>>, packet)
    ELSE Bind(opus_packet_unpad(packet, Len(packet)),
              LAMBDA r :
                  RetBuf(IF r.ret < 0 THEN Err(from_code(r.ret)) ELSE Ok(r.ret),
                         <<"opus_packet_unpad">>, r.data))

\* packet_unpad
packet_unpad(packet, len) ==
    IF len > Len(packet) THEN RetBuf(Err(BadArg), <<>>, packet)
    ELSE IF ~fits_i32(len) THEN RetBuf(Err(BadArg), <<>>, packet)
    ELSE LET r == opus_packet_unpad(packet, len)
         IN  RetBuf(IF r.ret < 0 THEN Err(from_code(r.ret)) ELSE Ok(r.ret),
                    <<"opus_packet_unpad">>, r.data)

\* multistream_packet_pad
multistream_packet_pad(packet, len, new_len, nb_streams) ==
    IF new_len < len \/ new_len > Len(packet)
    THEN RetBuf(Err(BadArg), <<>>, packet)
    ELSE IF ~fits_i32(len) \/ ~fits_i32(new_len)
    THEN RetBuf(Err(BadArg), <<>>, packet)
    ELSE LET r == opus_multistream_packet_pad(packet, len, new_len, nb_streams)
         IN  RetBuf(IF r.ret # 0 THEN Err(from_code(r.ret)) ELSE Ok(NoVal),
                    <<"opus_multistream_packet_pad">>, r.data)

\* multistream_packet_unpad
multistream_packet_unpad(packet, len, nb_streams) ==
    IF len > Len(packet) THEN RetBuf(Err(BadArg), <<>>, packet)
    ELSE IF ~fits_i32(len) THEN RetBuf(Err(BadArg), <<>>, packet)
    ELSE LET r == opus_multistream_packet_unpad(packet, len, nb_streams)
         IN  RetBuf(IF r.ret < 0 THEN Err(from_code(r.ret)) ELSE Ok(r.ret),
                    <<"opus_multistream_packet_unpad">>, r.data)

(***************************************************************************)
(* libopus: the entry points of the repacketizer.  The packet given to     *)
(* opus_repacketizer_cat lies at address base of the memory src, and the   *)
(* frame pointers the repacketizer keeps are addresses of src: it copies   *)
(* no frame, and reads the memory when a packet is written out.            *)
(***************************************************************************)
\* opus_repacketizer_cat(rp, src + base, len)
opus_repacketizer_cat_at(r, src, base, len) ==
    Bind(opus_repacketizer_cat(r, SubSeq(src, base + 1, base + len), len),
         LAMBDA c :
             [ret |-> c.ret,
              rp |-> [c.rp EXCEPT !.frames =
                         [i \in 1..Len(@) |->
                             IF i > r.nb_frames /\ c.ret = OPUS_OK
                             THEN @[i] + base ELSE @[i]]]])

\* opus_repacketizer_get_nb_frames
opus_repacketizer_get_nb_frames(r) == r.nb_frames

\* opus_repacketizer_out_range(rp, begin, end, data, maxlen)
opus_repacketizer_out_range(r, begin, end, data, maxlen, src) ==
    opus_repacketizer_out_range_impl(r, begin, end, data, 0, maxlen, FALSE,
                                     FALSE, src, FALSE)

\* opus_repacketizer_out(rp, data, maxlen)
opus_repacketizer_out(r, data, maxlen, src) ==
    opus_repacketizer_out_range_impl(r, 0, r.nb_frames, data, 0, maxlen, FALSE,
                                     FALSE, src, FALSE)

(***************************************************************************)
(* src/src/repacketizer.rs: Repacketizer.  self is the OpusRepacketizer    *)
(* behind the handle.  push borrows the packet for the call only, so the   *)
(* pointers it leaves in self outlive the borrow: src is the caller's      *)
(* memory as it is when a call is made.                                    *)
(***************************************************************************)
\* a call on &mut self: the Result, the libopus calls and self afterwards
RetSelf(r, calls, self) == [r |-> r, calls |-> calls, rp |-> self]

\* Repacketizer::new (opus_repacketizer_create initialises the state)
Repacketizer_new == opus_repacketizer_init

\* a reset that leaves the repacketizer as it was
Repacketizer_reset_keeps_state(self) == self

\* Repacketizer::reset
Repacketizer_reset(self) == opus_repacketizer_init

\* push dropping the status of opus_repacketizer_cat
Repacketizer_push_ignore_status(self, src, base, len) ==
    IF len = 0 THEN RetSelf(Err(BadArg), <<>>, self)
    ELSE IF ~fits_i32(len) THEN RetSelf(Err(BadArg), <<>>, self)
    ELSE Bind(opus_repacketizer_cat_at(self, src, base, len),
              LAMBDA c : RetSelf(Ok(NoVal), <<"opus_repacketizer_cat">>, c.rp))

\* push re-initialising the repacketizer before the packet is added
Repacketizer_push_after_init(self, src, base, len) ==
    IF len = 0 THEN RetSelf(Err(BadArg), <<>>, self)
    ELSE IF ~fits_i32(len) THEN RetSelf(Err(BadArg), <<>>, self)
    ELSE Bind(opus_repacketizer_cat_at(opus_repacketizer_init, src, base, len),
              LAMBDA c :
                  RetSelf(IF c.ret # 0 THEN Err(from_code(c.ret)) ELSE Ok(NoVal),
                          <<"opus_repacketizer_init", "opus_repacketizer_cat">>,
                          c.rp))

\* push re-initialising the repacketizer when the packet is refused
Repacketizer_push_reset_on_error(self, src, base, len) ==
    IF len = 0 THEN RetSelf(Err(BadArg), <<>>, self)
    ELSE IF ~fits_i32(len) THEN RetSelf(Err(BadArg), <<>>, self)
    ELSE Bind(opus_repacketizer_cat_at(self, src, base, len),
              LAMBDA c :
                  IF c.ret # 0
                  THEN RetSelf(Err(from_code(c.ret)),
                               <<"opus_repacketizer_cat", "opus_repacketizer_init">>,
                               opus_repacketizer_init)
                  ELSE RetSelf(Ok(NoVal), <<"opus_repacketizer_cat">>, c.rp))

\* Repacketizer::push
Repacketizer_push(self, src, base, len) ==
    IF len = 0 THEN RetSelf(Err(BadArg), <<>>, self)
    ELSE IF ~fits_i32(len) THEN RetSelf(Err(BadArg), <<>>, self)
    ELSE Bind(opus_repacketizer_cat_at(self, src, base, len),
              LAMBDA c :
                  RetSelf(IF c.ret # 0 THEN Err(from_code(c.ret)) ELSE Ok(NoVal),
                          <<"opus_repacketizer_cat">>, c.rp))

\* frames counting from 1
Repacketizer_frames_plus_one(self) == opus_repacketizer_get_nb_frames(self) + 1

\* Repacketizer::frames
Repacketizer_frames(self) == opus_repacketizer_get_nb_frames(self)

\* out_range reading end as the last frame of the range, not one past it
Repacketizer_out_range_inclusive(self, begin, end, out_buf, src) ==
    IF out_buf = <<>> THEN RetBuf(Err(BadArg), <<>>, out_buf)
    ELSE IF begin < 0 \/ end <= begin THEN RetBuf(Err(BadArg), <<>>, out_buf)
    ELSE IF ~fits_i32(Len(out_buf)) THEN RetBuf(Err(BadArg), <<>>, out_buf)
    ELSE Bind(opus_repacketizer_out_range(self, begin, end + 1, out_buf,
                                          Len(out_buf), src),
              LAMBDA n :
                  RetBuf(IF n.ret < 0 THEN Err(from_code(n.ret)) ELSE Ok(n.ret),
                         <<"opus_repacketizer_out_range">>, n.data))

\* Repacketizer::out_range
Repacketizer_out_range(self, begin, end, out_buf, src) ==
    IF out_buf = <<>> THEN RetBuf(Err(BadArg), <<>>, out_buf)
    ELSE IF begin < 0 \/ end <= begin THEN RetBuf(Err(BadArg), <<>>, out_buf)
    ELSE IF ~fits_i32(Len(out_buf)) THEN RetBuf(Err(BadArg), <<>>, out_buf)
    ELSE Bind(opus_repacketizer_out_range(self, begin, end, out_buf,
                                          Len(out_buf), src),
              LAMBDA n :
                  RetBuf(IF n.ret < 0 THEN Err(from_code(n.ret)) ELSE Ok(n.ret),
                         <<"opus_repacketizer_out_range">>, n.data))

\* out answering an empty packet when no frame is held
Repacketizer_out_empty_ok(self, out_buf, src) ==
    IF out_buf = <<>> THEN RetBuf(Err(BadArg), <<>>, out_buf)
    ELSE IF ~fits_i32(Len(out_buf)) THEN RetBuf(Err(BadArg), <<>>, out_buf)
    ELSE IF self.nb_frames = 0 THEN RetBuf(Ok(0), <<>>, out_buf)
    ELSE Bind(opus_repacketizer_out(self, out_buf, Len(out_buf), src),
              LAMBDA n :
                  RetBuf(IF n.ret < 0 THEN Err(from_code(n.ret)) ELSE Ok(n.ret),
                         <<"opus_repacketizer_out">>, n.data))

\* out emitting the frames before the last one
Repacketizer_out_drop_last(self, out_buf, src) ==
    IF out_buf = <<>> THEN RetBuf(Err(BadArg), <<>>, out_buf)
    ELSE IF ~fits_i32(Len(out_buf)) THEN RetBuf(Err(BadArg), <<>>, out_buf)
    ELSE Bind(opus_repacketizer_out_range(self, 0, self.nb_frames - 1, out_buf,
                                          Len(out_buf), src),
              LAMBDA n :
                  RetBuf(IF n.ret < 0 THEN Err(from_code(n.ret)) ELSE Ok(n.ret),
                         <<"opus_repacketizer_out_range">>, n.data))

\* Repacketizer::out
Repacketizer_out(self, out_buf, src) ==
    IF out_buf = <<>> THEN RetBuf(Err(BadArg), <<>>, out_buf)
    ELSE IF ~fits_i32(Len(out_buf)) THEN RetBuf(Err(BadArg), <<>>, out_buf)
    ELSE Bind(opus_repacketizer_out(self, out_buf, Len(out_buf), src),
              LAMBDA n :
                  RetBuf(IF n.ret < 0 THEN Err(from_code(n.ret)) ELSE Ok(n.ret),
                         <<"opus_repacketizer_out">>, n.data))

(***************************************************************************)
(* Inputs.  A packet is a TOC byte, a few header bytes drawn freely from a *)
(* set of frame-count and length bytes, and a payload of filler, which the *)
(* parser reads as lengths where the header stops short.                   *)
(***************************************************************************)
\* config 0 mono (SILK NB, 10 ms frames) and config 16 stereo (CELT NB,
\* 2.5 ms frames), each with the four frame-count codes
TocSet == {0, 1, 2, 3, 132, 133, 134, 135}

\* as a frame-count byte: counts 0, 1, 2, 48, 49, count 1 padded (65), count
\* 2 VBR (130), count 2 VBR padded (194); as a length: 0, 1, 2, 48, 49, the
\* two-byte marker (252) and the padding continuation (255)
HdrBytes == {0, 1, 2, 48, 49, 65, 130, 194, 252, 255}

RECURSIVE SeqsUpTo(_, _)
SeqsUpTo(S, n) ==
    IF n = 0 THEN {<<>>}
    ELSE LET shorter == SeqsUpTo(S, n - 1)
         IN  shorter \cup {Append(s, x) : s \in shorter, x \in S}

\* payload bytes 2, 3, 4, 5, 1, 2, ...
Fill(n) == [i \in 1..n |-> 1 + (i % 5)]

\* short packets: every TOC, every header, payloads of 0..MaxPayload bytes
ShortPackets ==
    {<<t>> \o h \o Fill(n) :
        t \in TocSet, h \in SeqsUpTo(HdrBytes, MaxHdr), n \in 0..MaxPayload}

\* frames around the 251/252 boundary of the length encoding and the
\* 1275-byte limit of a frame: one frame (code 0), two equal frames (code
\* 1), a first length of two bytes, 252 + 4 * 2 = 260 (code 2, bytes 252, 2)
BigFramePackets ==
    {<<t>> \o h \o Fill(n) :
        t \in {0, 1, 2}, h \in {<<>>, <<252>>},
        n \in {261, 262, 1275, 1276, 1280, 2550, 2552}}

\* code 3, CBR, c frames of one byte: 12 frames of 10 ms and 48 frames of
\* 2.5 ms are 120 ms of audio
ManyFramePackets ==
    {<<t, c>> \o Fill(c) : t \in {3, 135}, c \in {12, 13, 48, 49}}

Packets == {<<>>} \cup ShortPackets \cup BigFramePackets \cup ManyFramePackets

\* SampleRate values passed by the callers of the sample queries
SampleRates == {8000, 48000}

NoArg == [len |-> NoVal, new_len |-> NoVal, nb_streams |-> NoVal,
          sample_rate |-> NoVal, slot |-> NoVal, begin |-> NoVal,
          end |-> NoVal]

\* the state before any call: the caller's buffer holds packet p and slack
\* spare bytes
Start(p, slack) ==
    /\ buf = p \o Repeat(0, slack)
    /\ plen = Len(p)
    /\ op = "none"
    /\ arg = NoArg
    /\ res = Ok(NoVal)
    /\ ffi = <<>>
    /\ pre = buf
    /\ repk = opus_repacketizer_init
    /\ mem = <<>>
    /\ pushed = <<>>
    /\ heap = <<>>
    /\ objs = <<>>
    /\ native = <<>>

(***************************************************************************)
(* Spec: the packet queries, which only read the packet.                   *)
(***************************************************************************)
Init == \E p \in Packets : Start(p, 0)

\* the slice the caller passes to the packet queries
Packet == SubSeq(buf, 1, plen)

\* a call that only reads the packet
Query(name, a, ret) ==
    /\ op' = name
    /\ arg' = a
    /\ res' = ret.r
    /\ ffi' = ret.calls
    /\ pre' = buf
    /\ UNCHANGED <<buf, plen>>
    /\ UNCHANGED rpvars
    /\ UNCHANGED natvars

PacketBandwidth == Query("packet_bandwidth", NoArg, packet_bandwidth(Packet))

PacketChannels == Query("packet_channels", NoArg, packet_channels(Packet))

PacketNbFrames == Query("packet_nb_frames", NoArg, packet_nb_frames(Packet))

PacketNbSamples ==
    \E sr \in SampleRates :
        Query("packet_nb_samples", [NoArg EXCEPT !.sample_rate = sr],
              packet_nb_samples(Packet, sr))

PacketSamplesPerFrame ==
    \E sr \in SampleRates :
        Query("packet_samples_per_frame", [NoArg EXCEPT !.sample_rate = sr],
              packet_samples_per_frame(Packet, sr))

PacketHasLbrr == Query("packet_has_lbrr", NoArg, packet_has_lbrr(Packet))

PacketParse == Query("packet_parse", NoArg, packet_parse(Packet))

Next ==
    \/ PacketBandwidth
    \/ PacketChannels
    \/ PacketNbFrames
    \/ PacketNbSamples
    \/ PacketSamplesPerFrame
    \/ PacketHasLbrr
    \/ PacketParse

Spec == Init /\ [][Next]_vars

(***************************************************************************)
(* Properties of the packet queries, checked under Spec.                   *)
(***************************************************************************)
QueryOps ==
    {"packet_bandwidth", "packet_channels", "packet_nb_frames",
     "packet_nb_samples", "packet_samples_per_frame", "packet_has_lbrr",
     "packet_parse"}

Parsed == op = "packet_parse"

\* the frame-count code of the packet's TOC, and the bytes after the TOC
Code == IF plen >= 1 THEN buf[1] % 4 ELSE NoVal

Remaining == plen - 1

NonEmpty(frames) == SelectSeq(frames, LAMBDA f : f # <<>>)

FrameSizes(frames) == [i \in 1..Len(frames) |-> Len(frames[i])]

\* C1: every packet query on an empty packet fails with BadArg and makes
\* no libopus call.
C1_EmptyPacketIsBadArg ==
    (op \in QueryOps /\ plen = 0) => (res = Err(BadArg) /\ ffi = <<>>)

C1_Witness == op = "packet_parse" /\ plen = 0 /\ res = Err(BadArg)

\* C2 as stated: a code 0 packet with at least one payload byte parses to
\* payload offset 1 and one frame made of all bytes after the TOC.
C2_AnyPayload ==
    (Parsed /\ plen >= 2 /\ Code = 0) =>
        /\ res.ok
        /\ res.payload_offset = 1
        /\ res.frames = <<SubSeq(Packet, 2, plen)>>

\* C2, amended: that holds for 1..1275 payload bytes; a frame of more than
\* 1275 bytes is rejected with InvalidPacket.
C2_Code0 ==
    (Parsed /\ plen >= 2 /\ Code = 0) =>
        IF Remaining <= 1275
        THEN /\ res.ok
             /\ res.payload_offset = 1
             /\ res.frames = <<SubSeq(Packet, 2, plen)>>
        ELSE res = Err(InvalidPacket)

C2_Witness ==
    Parsed /\ Code = 0 /\ Remaining = 1275 /\ res.ok /\ Len(res.frames) = 1

\* C3 as stated: a code 1 packet parses to two frames of (remaining)/2
\* bytes each when the remainder is even, and is InvalidPacket when odd.
C3_TwoEqualFrames ==
    (Parsed /\ plen >= 1 /\ Code = 1) =>
        IF Remaining % 2 = 1 THEN res = Err(InvalidPacket)
        ELSE /\ res.ok
             /\ FrameSizes(res.frames) = <<Remaining \div 2, Remaining \div 2>>

\* C3, amended: odd remainder, or frames above 1275 bytes: InvalidPacket;
\* remainder 0: success with no frame returned; otherwise the two halves.
C3_Code1 ==
    (Parsed /\ plen >= 1 /\ Code = 1) =>
        IF Remaining % 2 = 1 \/ Remaining \div 2 > 1275
        THEN res = Err(InvalidPacket)
        ELSE /\ res.ok
             /\ res.payload_offset = 1
             /\ res.frames =
                   IF Remaining = 0 THEN <<>>
                   ELSE <<Slice(Packet, 1, Remaining \div 2),
                          Slice(Packet, 1 + Remaining \div 2, Remaining \div 2)>>

C3_Witness ==
    /\ Parsed /\ Code = 1 /\ res.ok
    /\ Len(res.frames) = 2 /\ Len(res.frames[1]) = 1275

\* the length descriptor of a code 2 packet: one byte below 252, else two
C4_Truncated == Remaining < 1 \/ (buf[2] >= 252 /\ Remaining < 2)

C4_DescBytes == IF buf[2] >= 252 THEN 2 ELSE 1

C4_First == IF buf[2] >= 252 THEN 4 * buf[3] + buf[2] ELSE buf[2]

C4_Second == Remaining - C4_DescBytes - C4_First

\* C4 as stated: a code 2 packet parses to two frames, the first of the
\* described length and the second of all remaining bytes; a truncated
\* descriptor or a first frame longer than the rest is InvalidPacket.
C4_TwoFrames ==
    (Parsed /\ plen >= 1 /\ Code = 2) =>
        IF C4_Truncated THEN res = Err(InvalidPacket)
        ELSE IF C4_Second < 0 THEN res = Err(InvalidPacket)
        ELSE /\ res.ok
             /\ res.frames =
                   <<Slice(Packet, 1 + C4_DescBytes, C4_First),
                     Slice(Packet, 1 + C4_DescBytes + C4_First, C4_Second)>>

\* C4, amended: the two frames are as described, but a second frame above
\* 1275 bytes is InvalidPacket too, and an empty frame is not returned.
C4_Code2 ==
    (Parsed /\ plen >= 1 /\ Code = 2) =>
        IF C4_Truncated THEN res = Err(InvalidPacket)
        ELSE IF C4_Second < 0 \/ C4_Second > 1275 THEN res = Err(InvalidPacket)
        ELSE /\ res.ok
             /\ res.payload_offset = 1 + C4_DescBytes
             /\ res.frames =
                   NonEmpty(<<Slice(Packet, 1 + C4_DescBytes, C4_First),
                              Slice(Packet, 1 + C4_DescBytes + C4_First,
                                    C4_Second)>>)

C4_Witness ==
    /\ Parsed /\ Code = 2 /\ res.ok /\ plen >= 2 /\ buf[2] >= 252
    /\ FrameSizes(res.frames) = <<260, 1>>

\* the frame-count byte of a code 3 packet
C5_Count6 == buf[2] % 64

C5_Count7 == buf[2] % 128

\* frames libopus reports for the packet, and how many of them are empty
CodecSizes == opus_packet_parse(Packet, plen).size

ZeroFrames == Cardinality({i \in 1..Len(CodecSizes) : CodecSizes[i] = 0})

C6_SumInvariant ==
    (Parsed /\ res.ok) =>
        res.payload_offset + SumSeq(FrameSizes(res.frames)) <= plen

C6_Witness ==
    /\ Parsed /\ res.ok /\ Len(res.frames) = 1
    /\ res.payload_offset + SumSeq(FrameSizes(res.frames)) < plen

\* the frame count the TOC implies: 1, 2, 2, or the count of the count byte
ImpliedCount ==
    CASE Code = 0 -> 1
      [] Code \in {1, 2} -> 2
      [] OTHER -> C5_Count6

\* C7: the number of frames returned is the count the TOC implies minus
\* the number of zero-length frames, which are dropped.
C7_FrameCount ==
    (Parsed /\ res.ok) => Len(res.frames) = ImpliedCount - ZeroFrames

C7_Witness ==
    /\ Parsed /\ res.ok /\ Code = 3
    /\ ImpliedCount = 2 /\ ZeroFrames = 1 /\ Len(res.frames) = 1

\* C8 as stated: a successful packet_parse returns at least one frame.
C8_NeverEmpty == (Parsed /\ res.ok) => res.frames # <<>>

\* C8, amended: a successful packet_parse is of a packet of at least one
\* frame, and the list returned is empty exactly when all of the packet's
\* frames are zero-length.
C8_EmptyOnlyIfAllEmpty ==
    (Parsed /\ res.ok) =>
        /\ ImpliedCount >= 1
        /\ res.frames = <<>> <=> ZeroFrames = ImpliedCount
        /\ \A i \in 1..Len(res.frames) : res.frames[i] # <<>>

C8_Witness == Parsed /\ res.ok /\ res.frames = <<>> /\ plen = 1

(***************************************************************************)
(* PadSpec: the calls that rewrite the packet in the caller's buffer.      *)
(***************************************************************************)
\* TOCs and header bytes of the packets to pad: config 0 mono with the four
\* frame-count codes; counts 1 padded (65), 2 (2), 2 VBR (130)
PadTocSet == {0, 1, 2, 3}

PadHdrBytes == {2, 65, 130}

PadPackets ==
    {<<>>} \cup
    {<<t>> \o h \o Fill(n) :
        t \in PadTocSet, h \in SeqsUpTo(PadHdrBytes, MaxPadHdr),
        n \in 0..MaxPadPayload}

\* spare bytes after the packet: MaxSlack, or, for two of the packets,
\* enough for a padding length of two bytes (more than 255 bytes of padding)
Slacks(p) ==
    {MaxSlack} \cup (IF p \in {<<0, 2, 3>>, <<1, 2, 3>>} THEN {258} ELSE {})

PadInit == \E p \in PadPackets : \E slack \in Slacks(p) : Start(p, slack)

\* a call that may write the buffer; newlen is the packet's logical length
\* as the caller knows it after a successful call
Mutation(name, a, ret, newlen) ==
    /\ op' = name
    /\ arg' = a
    /\ res' = ret.r
    /\ ffi' = ret.calls
    /\ pre' = buf
    /\ buf' = ret.data
    /\ plen' = IF ret.r.ok THEN newlen ELSE plen
    /\ UNCHANGED rpvars
    /\ UNCHANGED natvars

\* lengths a caller passes for the packet: its logical length, or one more
\* than the buffer holds
LenArgs == {plen, Len(buf) + 1}

\* target lengths: one below the packet's length, that length, and the
\* lengths around the end of the buffer
NewLenArgs ==
    {n \in {plen - 1, plen} \cup ((Len(buf) - 1)..(Len(buf) + 1)) : n >= 0}

StreamCounts == 1..MaxStreams

PacketPad ==
    \E new_len \in NewLenArgs :
        \E ret \in {packet_pad(buf, plen, new_len)} :
            Mutation("packet_pad",
                     [NoArg EXCEPT !.len = plen, !.new_len = new_len],
                     ret, new_len)

PacketUnpad ==
    \E len \in LenArgs :
        \E ret \in {packet_unpad(buf, len)} :
            Mutation("packet_unpad", [NoArg EXCEPT !.len = len], ret, ret.r.val)

MultistreamPacketPad ==
    \E new_len \in NewLenArgs, nb_streams \in StreamCounts :
        \E ret \in {multistream_packet_pad(buf, plen, new_len, nb_streams)} :
            Mutation("multistream_packet_pad",
                     [NoArg EXCEPT !.len = plen, !.new_len = new_len,
                                   !.nb_streams = nb_streams],
                     ret, new_len)

MultistreamPacketUnpad ==
    \E len \in LenArgs, nb_streams \in StreamCounts :
        \E ret \in {multistream_packet_unpad(buf, len, nb_streams)} :
            Mutation("multistream_packet_unpad",
                     [NoArg EXCEPT !.len = len, !.nb_streams = nb_streams],
                     ret, ret.r.val)

PadNext ==
    \/ PacketPad
    \/ PacketUnpad
    \/ MultistreamPacketPad
    \/ MultistreamPacketUnpad

PadSpec == PadInit /\ [][PadNext]_vars

(***************************************************************************)
(* Properties of padding and unpadding, checked under PadSpec.             *)
(***************************************************************************)
PadOps == {"packet_pad", "multistream_packet_pad"}

UnpadOps == {"packet_unpad", "multistream_packet_unpad"}

\* the call failed with BadArg before reaching libopus and left the buffer
\* as it was
Refused == res = Err(BadArg) /\ ffi = <<>> /\ buf = pre

\* C9: packet_pad and multistream_packet_pad with new_len below len or
\* above the buffer's length, and packet_unpad and multistream_packet_unpad
\* with len above the buffer's length, fail with BadArg, make no libopus
\* call and leave the buffer untouched.
C9_LengthGuards ==
    /\ (op \in PadOps /\ (arg.new_len < arg.len \/ arg.new_len > Len(pre)))
           => Refused
    /\ (op \in UnpadOps /\ arg.len > Len(pre)) => Refused

C9_Witness ==
    op = "packet_pad" /\ arg.len >= 1 /\ arg.new_len > Len(pre) /\ Refused

\* the packet handed to packet_pad, and the packet it left
PadBefore == packet_parse(SubSeq(pre, 1, arg.len)).r

PadAfter == packet_parse(SubSeq(buf, 1, arg.new_len)).r

\* C10: after a successful packet_pad of a valid packet, the first new_len
\* bytes of the buffer parse as a packet of the same TOC configuration
\* (mode, bandwidth, frame size and channel bits) and the same frames.
C10_PadKeepsFrames ==
    (op = "packet_pad" /\ res.ok /\ PadBefore.ok) =>
        /\ plen = arg.new_len
        /\ PadAfter.ok
        /\ PadAfter.toc \div 4 = PadBefore.toc \div 4
        /\ PadAfter.frames = PadBefore.frames

C10_Witness ==
    /\ op = "packet_pad" /\ res.ok /\ PadBefore.ok
    /\ arg.new_len > arg.len + 255
    /\ Len(PadAfter.frames) = 2

\* the packet handed to packet_pad is what libopus itself writes: without
\* padding and in the shortest framing, so that unpadding it changes nothing
PadCanonical == opus_packet_unpad(pre, arg.len).ret = arg.len

\* a packet_unpad of the whole padded packet follows a successful packet_pad
\* of a packet that parses
UnpadAfterPad ==
    /\ op = "packet_pad" /\ res.ok /\ PadBefore.ok
    /\ op' = "packet_unpad" /\ arg'.len = arg.new_len

\* C11 as stated: packet_unpad after a successful packet_pad of a packet
\* that parses returns the packet's length and restores its bytes.
C11_RoundTripAnyPacket ==
    [][UnpadAfterPad =>
          /\ res' = Ok(arg.len)
          /\ SubSeq(buf', 1, arg.len) = SubSeq(pre, 1, arg.len)]_vars

\* C11, amended: that holds when the packet is in the framing libopus
\* writes (no padding, shortest frame-count code); for any packet that
\* parses, packet_unpad returns the length of that framing, at most len,
\* and leaves a packet of the same frames.
C11_RoundTrip ==
    [][UnpadAfterPad =>
          /\ res'.ok
          /\ res'.val = opus_packet_unpad(pre, arg.len).ret
          /\ res'.val <= arg.len
          /\ packet_parse(SubSeq(buf', 1, res'.val)).r.frames = PadBefore.frames
          /\ PadCanonical =>
                 /\ res' = Ok(arg.len)
                 /\ SubSeq(buf', 1, arg.len) = SubSeq(pre, 1, arg.len)]_vars

\* packet_unpad has given back the length a padded packet had before
\* packet_pad, here with more than 255 bytes of padding removed
C11_Witness ==
    /\ op = "packet_unpad" /\ res.ok
    /\ arg.len > res.val + 255
    /\ Len(packet_parse(SubSeq(buf, 1, res.val)).r.frames) = 2

\* C12: when packet_pad or packet_unpad returns an error, the buffer is
\* byte for byte as it was before the call.
C12_AllOrNothing ==
    (op \in {"packet_pad", "packet_unpad"} /\ ~res.ok) => buf = pre

\* libopus was called on a malformed packet and refused it
C12_Witness ==
    /\ op = "packet_pad" /\ res = Err(InvalidPacket)
    /\ ffi = <<"opus_packet_pad">> /\ arg.new_len > arg.len

(***************************************************************************)
(* RpSpec: a Repacketizer and the caller's packet buffers.  The caller     *)
(* keeps two buffers (packet1 and packet2 of test_repacketizer), pushes    *)
(* the packets in them and asks for merged packets.  Between two calls the *)
(* caller holds the buffers again and may write to them: push takes        *)
(* packet: &[u8] and returns no borrow.                                    *)
(***************************************************************************)
MaxPushes == 2

Slots == {1, 2}

\* the packet of the first buffer.  config 0 mono (10 ms frames): a TOC
\* alone (one empty frame), two frames, an odd remainder (malformed), eleven
\* frames; config 0 stereo: one frame; config 16 mono (2.5 ms frames): 47
\* empty frames; and the empty packet
RpPackets ==
    {<<>>, <<0>>, <<1, 5, 6>>, <<1, 5>>, <<3, 11>> \o Fill(11), <<4, 7>>,
     <<131, 47>>}

\* the packet of the second buffer: one frame of 10 ms or of 2.5 ms
SecondPackets == {<<0, 7>>, <<128, 7>>}

\* bytes of a caller's packet buffer
SlotSize == 14

\* out buffers: empty, too small for two frames, large enough for the
\* frames of both buffers with a TOC, a count and 48 lengths
OutBig == 2 * SlotSize + 50

OutCaps == {0, 2, OutBig}

\* a buffer holding packet p
Buffer(p) == [bytes |-> p \o Repeat(0, SlotSize - Len(p)), len |-> Len(p)]

\* the caller's memory, buffer after buffer, and the address of buffer i
Memory(m) == m[1].bytes \o m[2].bytes

Base(i) == (i - 1) * SlotSize

PacketIn(i) == SubSeq(mem[i].bytes, 1, mem[i].len)

RpInit ==
    /\ \E p1 \in RpPackets, p2 \in SecondPackets :
           mem = <<Buffer(p1), Buffer(p2)>>
    /\ repk = Repacketizer_new
    /\ pushed = <<>>
    /\ buf = <<>>
    /\ plen = 0
    /\ op = "new"
    /\ arg = NoArg
    /\ res = Ok(NoVal)
    /\ ffi = <<"opus_repacketizer_create">>
    /\ pre = <<>>
    /\ heap = <<>>
    /\ objs = <<>>
    /\ native = <<>>

\* a call on the Repacketizer that writes no buffer
RpCall(name, a, r, calls) ==
    /\ op' = name
    /\ arg' = a
    /\ res' = r
    /\ ffi' = calls
    /\ pre' = <<>>
    /\ UNCHANGED <<buf, plen, mem>>
    /\ UNCHANGED natvars

\* the caller pushes up to MaxPushes packets with success; a push that is
\* refused can always be made
Push ==
    \E i \in Slots :
        \E ret \in {Repacketizer_push(repk, Memory(mem), Base(i), mem[i].len)} :
            /\ Len(pushed) < MaxPushes \/ ~ret.r.ok
            /\ RpCall("push", [NoArg EXCEPT !.slot = i], ret.r, ret.calls)
            /\ repk' = ret.rp
            /\ pushed' = IF ret.r.ok THEN Append(pushed, PacketIn(i)) ELSE pushed

Reset ==
    /\ RpCall("reset", NoArg, Ok(NoVal), <<"opus_repacketizer_init">>)
    /\ repk' = Repacketizer_reset(repk)
    /\ pushed' = <<>>

Frames ==
    /\ RpCall("frames", NoArg, Ok(Repacketizer_frames(repk)),
              <<"opus_repacketizer_get_nb_frames">>)
    /\ UNCHANGED rpvars

\* a call that writes a fresh buffer of cap bytes
RpOut(name, a, ret) ==
    /\ op' = name
    /\ arg' = a
    /\ res' = ret.r
    /\ ffi' = ret.calls
    /\ pre' = <<>>
    /\ buf' = ret.data
    /\ plen' = IF ret.r.ok THEN ret.r.val ELSE 0
    /\ UNCHANGED <<repk, mem, pushed>>
    /\ UNCHANGED natvars

Out ==
    \E cap \in OutCaps :
        \E ret \in {Repacketizer_out(repk, Repeat(0, cap), Memory(mem))} :
            RpOut("out", [NoArg EXCEPT !.len = cap], ret)

\* ranges around the frames held: begin below 0, end at begin, end past the
\* frame count, the first frame, all frames but the first, all frames
Ranges ==
    {<<-1, 1>>, <<0, 0>>, <<1, 1>>, <<0, repk.nb_frames + 1>>, <<0, 1>>,
     <<1, repk.nb_frames>>, <<0, repk.nb_frames>>}

\* every range with a large buffer, the whole range with the others
OutRangeArgs ==
    {<<OutBig, r[1], r[2]>> : r \in Ranges}
        \cup {<<cap, 0, repk.nb_frames>> : cap \in OutCaps}

OutRange ==
    \E a \in OutRangeArgs : LET cap == a[1]  begin == a[2]  end == a[3] IN
        \E ret \in {Repacketizer_out_range(repk, begin, end, Repeat(0, cap),
                                           Memory(mem))} :
            RpOut("out_range",
                  [NoArg EXCEPT !.len = cap, !.begin = begin, !.end = end],
                  ret)

\* while the Repacketizer holds frames, the caller writes the last byte of
\* the packet in buffer i (or drops the buffer, and its memory is written by
\* its next owner); no call is made on the Repacketizer, so op and res still
\* tell of the last call
CallerWrite ==
    \E i \in Slots :
        /\ repk.nb_frames > 0
        /\ mem[i].len >= 2
        /\ mem[i].bytes[mem[i].len] # 9
        /\ mem' = [mem EXCEPT ![i].bytes[mem[i].len] = 9]
        /\ UNCHANGED <<buf, plen, op, arg, res, ffi, pre, repk, pushed>>
        /\ UNCHANGED natvars

RpNext ==
    \/ Push
    \/ Reset
    \/ Frames
    \/ Out
    \/ OutRange
    \/ CallerWrite

RpSpec == RpInit /\ [][RpNext]_vars

(***************************************************************************)
(* Properties of the Repacketizer, checked under RpSpec.  pushed holds the *)
(* bytes of every packet accepted since the last reset, as they were when  *)
(* push read them.                                                         *)
(***************************************************************************)
\* the step is a call of the named operation; a write of the caller changes
\* mem and no call does
Called(name) == op' = name /\ mem' = mem

FrameCount(p) == packet_nb_frames(p).r.val

PushedFrames == SumSeq([i \in 1..Len(pushed) |-> FrameCount(pushed[i])])

\* C13: a Repacketizer holds no frames, and frames() is 0, straight after
\* new and after every reset, whatever was pushed or emitted before.
C13_EmptyAfterNewAndReset ==
    op \in {"new", "reset"} => Repacketizer_frames(repk) = 0 /\ pushed = <<>>

\* a reset that follows a successful out of pushed packets
C13_Witness ==
    op = "reset" /\ plen > 0 /\ Repacketizer_frames(repk) = 0

\* C14: frames() is the sum of the frame counts of the packets pushed
\* successfully since the last reset, or since construction.
C14_FramesIsSumOfPushed ==
    /\ Repacketizer_frames(repk) = PushedFrames
    /\ op = "frames" => res = Ok(PushedFrames)

\* frames() answers 48 after two packets, of 47 frames and of 1 frame
C14_Witness ==
    op = "frames" /\ Len(pushed) = 2 /\ res = Ok(48)

\* the packet a push step passes, and what the repacketizer holds before it
Offered == PacketIn(arg'.slot)

Held == Repacketizer_frames(repk)

\* configuration index and stereo flag of a TOC byte (bits 2..7)
TocClass(toc) == toc \div 4

SameClass(p) == TocClass(p[1]) = TocClass(pushed[1][1])

WellFormed(p) == packet_parse(p).r.ok

\* samples at 48 kHz of the held frames with those of p added; a packet
\* carries at most 120 ms
AudioWith(p) == (Held + FrameCount(p)) * packet_samples_per_frame(p, 48000).r.val

FitsAudio(p) == AudioWith(p) <= 120 * 48

\* C15: with frames held, push of a packet whose configuration index or
\* stereo flag differs from the first pushed packet's is refused with
\* InvalidPacket and adds nothing; a well-formed packet that differs only in
\* the frame-count code bits is accepted while the audio fits.
C15_TocCompatibility ==
    [][(Called("push") /\ Held > 0 /\ Offered # <<>>)
        => /\ ~SameClass(Offered)
                => res' = Err(InvalidPacket) /\ Repacketizer_frames(repk') = Held
           /\ (SameClass(Offered) /\ WellFormed(Offered) /\ FitsAudio(Offered))
                => res'.ok]_vars

\* a well-formed stereo packet refused after a mono packet of the same
\* configuration
C15_Witness ==
    /\ op = "push" /\ res = Err(InvalidPacket) /\ pushed # <<>>
    /\ PacketIn(arg.slot) # <<>> /\ WellFormed(PacketIn(arg.slot))
    /\ PacketIn(arg.slot)[1] = 4 /\ pushed[1][1] = 0

Compatible(p) == Held = 0 \/ SameClass(p)

\* C16 as stated: compatible packets are accepted up to 48 frames in all,
\* and a push beyond 48 is refused with frames() unchanged.
C16_FortyEightFrames ==
    [][(Called("push") /\ Offered # <<>> /\ WellFormed(Offered) /\ Compatible(Offered))
        => IF Held + FrameCount(Offered) <= 48
           THEN res'.ok
           ELSE ~res'.ok /\ Repacketizer_frames(repk') = Held]_vars

\* C16: compatible packets are accepted while the accumulated audio stays
\* within 120 ms, which is 48 frames for 2.5 ms frames and fewer for longer
\* ones; a push beyond that is refused with InvalidPacket and frames() is
\* unchanged.
C16_AudioBudget ==
    [][(Called("push") /\ Offered # <<>> /\ WellFormed(Offered) /\ Compatible(Offered))
        => IF FitsAudio(Offered)
           THEN res'.ok /\ Repacketizer_frames(repk') = Held + FrameCount(Offered)
           ELSE res' = Err(InvalidPacket) /\ Repacketizer_frames(repk') = Held]_vars

\* one more 2.5 ms frame refused at 48 frames
C16_Witness ==
    /\ op = "push" /\ res = Err(InvalidPacket) /\ Repacketizer_frames(repk) = 48
    /\ PacketIn(arg.slot) # <<>> /\ PacketIn(arg.slot)[1] = pushed[1][1]

\* what a caller can see of a repacketizer: frames(), and what out and
\* out_range write into a buffer that holds every frame
Observed(r) ==
    [frames |-> Repacketizer_frames(r),
     out |-> Repacketizer_out(r, Repeat(0, OutBig), Memory(mem)),
     out_range |-> [a \in {<<0, 1>>, <<1, Repacketizer_frames(r)>>} |->
                      Repacketizer_out_range(r, a[1], a[2], Repeat(0, OutBig),
                                             Memory(mem))]]

\* C17: a push that returns an error, for an empty, malformed or
\* incompatible packet or for one that exceeds the budget, leaves frames()
\* and the output of out and out_range as they were before it.
C17_AtomicPush ==
    [][(Called("push") /\ ~res'.ok) => Observed(repk') = Observed(repk)]_vars

\* a malformed packet of the held configuration refused while frames are held
C17_Witness ==
    /\ op = "push" /\ res = Err(InvalidPacket) /\ Repacketizer_frames(repk) > 0
    /\ PacketIn(arg.slot) # <<>> /\ PacketIn(arg.slot)[1] \div 4 = pushed[1][1] \div 4
    /\ ~WellFormed(PacketIn(arg.slot))

RECURSIVE Flatten(_)
Flatten(ss) == IF ss = <<>> THEN <<>> ELSE Head(ss) \o Flatten(Tail(ss))

\* the frames packet_parse finds in the packets pushed, in push order
PushedParsed == Flatten([i \in 1..Len(pushed) |-> packet_parse(pushed[i]).r.frames])

\* the packet the last out or out_range wrote
Emitted == SubSeq(buf, 1, plen)

\* C18: out and out_range are pure reads: neither changes frames(), and two
\* calls of out into buffers of one length, with no push or reset between
\* them, return the same length and write the same bytes.
C18_PureReads ==
    [][/\ (Called("out") \/ Called("out_range"))
            => Repacketizer_frames(repk') = Held
       /\ (op = "out" /\ Called("out") /\ arg'.len = arg.len)
            => res' = res /\ buf' = buf]_vars

\* after a successful out the caller has written a buffer whose frames are
\* held, and out into a buffer of the same length now writes other bytes
C18_Witness ==
    /\ op = "out" /\ res.ok
    /\ Repacketizer_out(repk, Repeat(0, arg.len), Memory(mem)).data # buf

\* every frame of a well-formed packet, the empty ones too
FramesOf(p) ==
    LET q == opus_packet_parse(p, Len(p))
        starts == frame_starts(q.payload_offset, q.size)
    IN  [i \in 1..Len(q.size) |-> Slice(p, starts[i], q.size[i])]

\* the frames pushed, in push order, as push read them
PushedAll == Flatten([i \in 1..Len(pushed) |-> FramesOf(pushed[i])])

\* the frames held, as the caller's memory gives them now
HeldNow ==
    [i \in 1..repk.nb_frames |-> Slice(Memory(mem), repk.frames[i], repk.len[i])]

\* the memory of every held frame is as push read it
Untouched == HeldNow = PushedAll

\* C19: out_range(begin, end, out) returns BadArg when begin < 0, when
\* end <= begin and when end exceeds frames(); for 0 <= begin < end <=
\* frames() and a buffer that holds every frame it succeeds, and the packet
\* it writes holds end - begin frames, which are the pushed frames
\* begin..end-1.
C19_OutRange ==
    [][Called("out_range")
        => /\ (arg'.begin < 0 \/ arg'.end <= arg'.begin \/ arg'.end > Held)
                => res' = Err(BadArg)
           /\ (0 <= arg'.begin /\ arg'.begin < arg'.end /\ arg'.end <= Held
                 /\ arg'.len = OutBig)
                => /\ res'.ok
                   /\ packet_nb_frames(SubSeq(buf', 1, plen')).r
                        = Ok(arg'.end - arg'.begin)
                   /\ packet_parse(SubSeq(buf', 1, plen')).r.frames
                        = NonEmpty(SubSeq(PushedAll, arg'.begin + 1, arg'.end))]_vars

\* out_range over all frames but the first of 48 has succeeded
C19_Witness ==
    /\ op = "out_range" /\ res.ok /\ arg.begin = 1 /\ arg.end = 48
    /\ Repacketizer_frames(repk) = 48

\* C20: after successful pushes, out into a buffer that holds every frame
\* succeeds and writes one packet whose frame count is frames() and whose
\* parsed frames are, in push order, the frames of the packets pushed.
C20_MergeRoundTrip ==
    (op = "out" /\ arg.len = OutBig /\ pushed # <<>>)
        => /\ res.ok
           /\ packet_nb_frames(Emitted).r = Ok(Repacketizer_frames(repk))
           /\ packet_parse(Emitted).r.frames = PushedParsed

\* out has succeeded with frames other than those of the packets pushed
C20_Witness ==
    /\ op = "out" /\ res.ok /\ Len(pushed) = 2
    /\ packet_nb_frames(Emitted).r = Ok(Repacketizer_frames(repk))
    /\ packet_parse(Emitted).r.frames # PushedParsed

\* the sizes of the frames held
HeldSizes == SubSeq(repk.len, 1, repk.nb_frames)

AllEqual(sizes) == \A i \in 1..Len(sizes) : sizes[i] = sizes[1]

\* the VBR flag and the frame count of a count byte
VbrFlag(byte) == byte \div 128

CountOf(byte) == byte % 64

AskedFrames ==
    IF op = "out" THEN PushedAll ELSE SubSeq(PushedAll, arg.begin + 1, arg.end)

\* C27: frames held stay valid until they are read: whatever the caller
\* does with a pushed packet's buffer before out or out_range, the packet
\* written holds the bytes the frames had when they were pushed.
C27_FramesStayValid ==
    (op \in {"out", "out_range"} /\ res.ok) => FramesOf(Emitted) = AskedFrames

\* out_range over the second of two pushed packets has written a frame with
\* a byte the caller wrote after the push
C27_Witness ==
    /\ op = "out_range" /\ res.ok /\ arg.begin = 1 /\ Len(pushed) = 2
    /\ FramesOf(Emitted) # AskedFrames
    /\ \E i \in 1..Len(FramesOf(Emitted)) : \E k \in 1..Len(FramesOf(Emitted)[i]) :
           FramesOf(Emitted)[i][k] = 9 /\ AskedFrames[i][k] # 9

\* MAX_PACKET_DURATION_MS
MAX_PACKET_DURATION_MS == 120

\* samples at 48 kHz of the frames held
HeldAudio ==
    IF Held = 0 THEN 0
    ELSE Held * packet_samples_per_frame(<<repk.toc>>, 48000).r.val

\* C28: after any calls of push, reset, out and out_range the frames held
\* are at most 120 ms of audio, frames() times the frame duration of the
\* stored TOC, and so frames() is at most 48.
C28_AtMost120ms ==
    /\ HeldAudio <= MAX_PACKET_DURATION_MS * 48
    /\ Held <= 48

\* 48 frames of 2.5 ms are held, 120 ms in all
C28_Witness ==
    Held = 48 /\ HeldAudio = MAX_PACKET_DURATION_MS * 48 /\ op \in {"out", "out_range"}

\* C29: out on a Repacketizer that holds no frames returns an error for
\* every buffer, never a length, writes nothing and leaves it empty.
C29_OutOnEmpty ==
    [][(Called("out") /\ Held = 0)
        => /\ ~res'.ok
           /\ buf' = Repeat(0, arg'.len)
           /\ Repacketizer_frames(repk') = 0]_vars

\* out into a buffer that is not empty, refused by libopus after a reset
\* that followed a push
C29_Witness ==
    /\ op = "out" /\ ~res.ok /\ Held = 0 /\ arg.len = OutBig
    /\ ffi = <<"opus_repacketizer_out">>
    /\ \E i \in Slots : mem[i].len >= 2 /\ mem[i].bytes[mem[i].len] = 9

(***************************************************************************)
(* Error codes: from_code on a code, then to_code on the error it gave.    *)
(***************************************************************************)
MaxCode == 60

I32Max == 2^30 - 1 + 2^30

I32Min == -I32Max - 1

\* codes around the seven libopus codes, and the ends of i32
Codes == (-MaxCode..MaxCode) \cup {I32Min, I32Max}

\* no call is made on a packet or a Repacketizer
NoObjects ==
    /\ buf = <<>>
    /\ plen = 0
    /\ pre = <<>>
    /\ ffi = <<>>
    /\ repk = opus_repacketizer_init
    /\ mem = <<>>
    /\ pushed = <<>>
    /\ heap = <<>>
    /\ objs = <<>>
    /\ native = <<>>

ErrInit ==
    /\ NoObjects
    /\ op = "none"
    /\ arg = [code |-> 0]
    /\ res = Ok(NoVal)

FromCode ==
    \E code \in Codes :
        /\ op' = "from_code"
        /\ arg' = [code |-> code]
        /\ res' = Err(from_code(code))
        /\ UNCHANGED <<buf, plen, pre, ffi, repk, mem, pushed>>
        /\ UNCHANGED natvars

ToCode ==
    /\ op = "from_code"
    /\ op' = "to_code"
    /\ res' = Ok(to_code(res.err))
    /\ UNCHANGED <<arg, buf, plen, pre, ffi, repk, mem, pushed>>
    /\ UNCHANGED natvars

ErrNext ==
    \/ FromCode
    \/ ToCode

ErrSpec == ErrInit /\ [][ErrNext]_vars

\* the variant each libopus error code is named by
NamedVariant ==
    [c \in -7..-1 |->
        <<"AllocFail", "InvalidState", "Unimplemented", "InvalidPacket",
          "InternalError", "BufferTooSmall", "BadArg">>[c + 8]]

\* C30: from_code(c).to_code() is c for every 32-bit code c; the seven
\* libopus codes give their named variants and every other code, 0 too,
\* gives Unknown(c).
C30_CodeRoundTrip ==
    /\ op = "to_code" => res = Ok(arg.code)
    /\ op = "from_code"
         => res.err = IF arg.code \in -7..-1
                      THEN Error(NamedVariant[arg.code])
                      ELSE [kind |-> "Unknown", code |-> arg.code]

\* the lowest 32-bit code has come back from Unknown
C30_Witness ==
    op = "to_code" /\ arg.code = I32Min /\ res.val = I32Min

(***************************************************************************)
(* Native states.  heap[h] is the state libopus created under handle h     *)
(* (handles count from 1, and 0 is the null pointer): its kind, how often  *)
(* it was destroyed, and whether it was used or destroyed after its        *)
(* release.                                                                *)
(***************************************************************************)
NullHandle == 0

Create(h, kind) ==
    Append(h, [kind |-> kind, destroys |-> 0, misused |-> FALSE])

Destroy(h, id) ==
    [h EXCEPT ![id].destroys = @ + 1, ![id].misused = @ \/ h[id].destroys > 0]

Use(h, id) == [h EXCEPT ![id].misused = @ \/ h[id].destroys > 0]

\* what a create call leaves: the error code, the handle, the heap
Created(err, handle, h) == [err |-> err, handle |-> handle, heap |-> h]

(***************************************************************************)
(* libopus multistream create calls (opus_multistream_encoder.c,           *)
(* opus_multistream_decoder.c).  In libopus "streams" counts every stream  *)
(* and "coupled_streams" those of them that carry two channels; a mapping  *)
(* entry names a coded channel, or is 255 for a channel that is dropped.   *)
(* alloc tells whether the allocation succeeds.                            *)
(***************************************************************************)
U8_MAX == 255

\* validate_layout
validate_layout(streams, coupled_streams, mapping) ==
    /\ streams + coupled_streams <= U8_MAX
    /\ \A i \in 1..Len(mapping) :
           mapping[i] < streams + coupled_streams \/ mapping[i] = U8_MAX

\* validate_encoder_layout: every stream is fed by a channel
validate_encoder_layout(streams, coupled_streams, mapping) ==
    LET fed(c) == \E i \in 1..Len(mapping) : mapping[i] = c
    IN  /\ \A s \in 0..(coupled_streams - 1) : fed(2 * s) /\ fed(2 * s + 1)
        /\ \A s \in coupled_streams..(streams - 1) : fed(s + coupled_streams)

\* the argument checks the encoder and the decoder create calls share
ms_create_args_ok(channels, streams, coupled_streams) ==
    /\ channels <= U8_MAX
    /\ channels >= 1
    /\ coupled_streams <= streams
    /\ streams >= 1
    /\ coupled_streams >= 0
    /\ streams <= U8_MAX - coupled_streams

opus_multistream_encoder_create(h, channels, streams, coupled_streams, mapping, alloc) ==
    IF ~ms_create_args_ok(channels, streams, coupled_streams)
       \/ streams + coupled_streams > channels
    THEN Created(OPUS_BAD_ARG, NullHandle, h)
    ELSE IF ~alloc THEN Created(OPUS_ALLOC_FAIL, NullHandle, h)
    ELSE IF ~validate_layout(streams, coupled_streams, mapping)
            \/ ~validate_encoder_layout(streams, coupled_streams, mapping)
    THEN Created(OPUS_BAD_ARG, NullHandle, h)
    ELSE Created(OPUS_OK, Len(h) + 1, Create(h, "OpusMSEncoder"))

opus_multistream_decoder_create(h, channels, streams, coupled_streams, mapping, alloc) ==
    IF ~ms_create_args_ok(channels, streams, coupled_streams)
    THEN Created(OPUS_BAD_ARG, NullHandle, h)
    ELSE IF ~alloc THEN Created(OPUS_ALLOC_FAIL, NullHandle, h)
    ELSE IF ~validate_layout(streams, coupled_streams, mapping)
    THEN Created(OPUS_BAD_ARG, NullHandle, h)
    ELSE Created(OPUS_OK, Len(h) + 1, Create(h, "OpusMSDecoder"))

(***************************************************************************)
(* Mapping and the multistream constructors (src/src/multistream.rs).      *)
(***************************************************************************)
\* what a constructor leaves: its result, the libopus calls it made, the
\* heap, and the values it returned (none on an error)
Made(r, calls, h, values) == [r |-> r, calls |-> calls, heap |-> h, objs |-> values]

\* the loop of Mapping::validate from entry i on; assignments[idx + 1]
\* counts the channels of index idx so far
RECURSIVE validate_entries(_, _, _, _, _)
validate_entries(mapping, i, assignments, streams, total_streams) ==
    IF i > Len(mapping) THEN Ok(NoVal)
    ELSE IF mapping[i] = U8_MAX
    THEN validate_entries(mapping, i + 1, assignments, streams, total_streams)
    ELSE IF mapping[i] >= total_streams THEN Err(BadArg)
    ELSE LET idx == mapping[i]
             counted == [assignments EXCEPT ![idx + 1] = @ + 1]
         IN  IF idx < streams /\ counted[idx + 1] > 1 THEN Err(BadArg)
             ELSE IF idx >= streams /\ counted[idx + 1] > 2 THEN Err(BadArg)
             ELSE validate_entries(mapping, i + 1, counted, streams,
                                   total_streams)

\* the loop of Mapping::validate without the test for dropped channels
RECURSIVE validate_entries_no_dropped(_, _, _, _, _)
validate_entries_no_dropped(mapping, i, assignments, streams, total_streams) ==
    IF i > Len(mapping) THEN Ok(NoVal)
    ELSE IF mapping[i] >= total_streams THEN Err(BadArg)
    ELSE LET idx == mapping[i]
             counted == [assignments EXCEPT ![idx + 1] = @ + 1]
         IN  IF idx < streams /\ counted[idx + 1] > 1 THEN Err(BadArg)
             ELSE IF idx >= streams /\ counted[idx + 1] > 2 THEN Err(BadArg)
             ELSE validate_entries_no_dropped(mapping, i + 1, counted, streams,
                                              total_streams)

\* Mapping::validate taking 255 for a stream index like any other
Mapping_validate_no_dropped(self) ==
    IF self.channels = 0 THEN Err(BadArg)
    ELSE IF Len(self.mapping) # self.channels THEN Err(BadArg)
    ELSE IF self.streams + self.coupled_streams = 0 THEN Err(BadArg)
    ELSE IF self.streams > self.channels THEN Err(BadArg)
    ELSE IF self.coupled_streams > self.channels \div 2 THEN Err(BadArg)
    ELSE validate_entries_no_dropped(
             self.mapping, 1,
             Repeat(0, self.streams + self.coupled_streams),
             self.streams, self.streams + self.coupled_streams)

\* Mapping::validate
Mapping_validate(self) ==
    IF self.channels = 0 THEN Err(BadArg)
    ELSE IF Len(self.mapping) # self.channels THEN Err(BadArg)
    ELSE IF self.streams + self.coupled_streams = 0 THEN Err(BadArg)
    ELSE IF self.streams > self.channels THEN Err(BadArg)
    ELSE IF self.coupled_streams > self.channels \div 2 THEN Err(BadArg)
    ELSE validate_entries(self.mapping, 1,
                          Repeat(0, self.streams + self.coupled_streams),
                          self.streams, self.streams + self.coupled_streams)

\* MSEncoder::new
MSEncoder_new(h, sr, app, mapping, alloc) ==
    IF ~Mapping_validate(mapping).ok
    THEN Made(Mapping_validate(mapping), <<>>, h, <<>>)
    ELSE LET c == opus_multistream_encoder_create(
                      h, mapping.channels, mapping.streams,
                      mapping.coupled_streams, mapping.mapping, alloc)
             calls == <<"opus_multistream_encoder_create">>
         IN  IF c.err # 0 THEN Made(Err(from_code(c.err)), calls, c.heap, <<>>)
             ELSE IF c.handle = NullHandle
             THEN Made(Err(Error("AllocFail")), calls, c.heap, <<>>)
             ELSE Made(Ok(NoVal), calls, c.heap,
                       <<[type |-> "MSEncoder", raw |-> c.handle,
                          sample_rate |-> sr, channels |-> mapping.channels,
                          streams |-> mapping.streams,
                          coupled_streams |-> mapping.coupled_streams]>>)

\* MSDecoder::new
MSDecoder_new(h, sr, mapping, alloc) ==
    IF ~Mapping_validate(mapping).ok
    THEN Made(Mapping_validate(mapping), <<>>, h, <<>>)
    ELSE LET c == opus_multistream_decoder_create(
                      h, mapping.channels, mapping.streams,
                      mapping.coupled_streams, mapping.mapping, alloc)
             calls == <<"opus_multistream_decoder_create">>
         IN  IF c.err # 0 THEN Made(Err(from_code(c.err)), calls, c.heap, <<>>)
             ELSE IF c.handle = NullHandle
             THEN Made(Err(Error("AllocFail")), calls, c.heap, <<>>)
             ELSE Made(Ok(NoVal), calls, c.heap,
                       <<[type |-> "MSDecoder", raw |-> c.handle,
                          sample_rate |-> sr, channels |-> mapping.channels]>>)

(***************************************************************************)
(* Mapping validation: a mapping drawn from MappingInputs, then validate   *)
(* and the two constructors that run it.                                   *)
(***************************************************************************)
MaxChannels == 3

MaxMapStreams == 2

\* stream indices and the mark of a dropped channel
MapEntries == {0, 1, 2, U8_MAX}

MapTables == UNION {[1..n -> MapEntries] : n \in 0..MaxChannels}

MappingInputs ==
    {[channels |-> c, streams |-> st, coupled_streams |-> cp, mapping |-> t] :
        c \in 0..MaxChannels, st \in 0..MaxMapStreams, cp \in 0..MaxMapStreams,
        t \in MapTables}

MapInit ==
    /\ buf = <<>>
    /\ plen = 0
    /\ pre = <<>>
    /\ ffi = <<>>
    /\ repk = opus_repacketizer_init
    /\ mem = <<>>
    /\ pushed = <<>>
    /\ heap = <<>>
    /\ objs = <<>>
    /\ native = <<>>
    /\ op = "none"
    /\ arg \in MappingInputs
    /\ res = Ok(NoVal)

\* a call on the mapping of this run
MapCall(name, r, calls) ==
    /\ op' = name
    /\ res' = r
    /\ ffi' = calls
    /\ UNCHANGED <<arg, buf, plen, pre, repk, mem, pushed>>

MappingValidate ==
    /\ MapCall("validate", Mapping_validate(arg), <<>>)
    /\ UNCHANGED natvars

\* one value is constructed in a run
MSEncoderNew ==
    \E alloc \in BOOLEAN :
        \E made \in {MSEncoder_new(heap, 48000, "Audio", arg, alloc)} :
            /\ objs = <<>>
            /\ MapCall("MSEncoder::new", made.r, made.calls)
            /\ heap' = made.heap
            /\ objs' = objs \o made.objs
            /\ UNCHANGED native

MSDecoderNew ==
    \E alloc \in BOOLEAN :
        \E made \in {MSDecoder_new(heap, 48000, arg, alloc)} :
            /\ objs = <<>>
            /\ MapCall("MSDecoder::new", made.r, made.calls)
            /\ heap' = made.heap
            /\ objs' = objs \o made.objs
            /\ UNCHANGED native

MapNext ==
    \/ MappingValidate
    \/ MSEncoderNew
    \/ MSDecoderNew

MapSpec == MapInit /\ [][MapNext]_vars

\* the channels of a mapping that are given index idx
ChannelsOf(m, idx) == {i \in 1..Len(m.mapping) : m.mapping[i] = idx}

\* the mappings C26 says are accepted
Accepted(m) ==
    /\ m.channels >= 1
    /\ Len(m.mapping) = m.channels
    /\ m.streams + m.coupled_streams >= 1
    /\ m.streams <= m.channels
    /\ m.coupled_streams <= m.channels \div 2
    /\ \A i \in 1..Len(m.mapping) :
           m.mapping[i] # U8_MAX => m.mapping[i] < m.streams + m.coupled_streams
    /\ \A idx \in 0..(m.streams + m.coupled_streams - 1) :
           idx # U8_MAX
             => Cardinality(ChannelsOf(m, idx)) <= IF idx < m.streams THEN 1 ELSE 2

\* C26: Mapping::validate, which MSEncoder::new and MSDecoder::new run
\* before the native create call, accepts a mapping exactly when channels
\* >= 1, the table has channels entries, streams + coupled_streams >= 1,
\* streams <= channels, coupled_streams <= channels / 2, every entry other
\* than 255 is below streams + coupled_streams, each index below streams is
\* given to at most one channel and each other index to at most two; every
\* rejection is BadArg.
C26_MappingValidation ==
    /\ op = "validate"
         => res = IF Accepted(arg) THEN Ok(NoVal) ELSE Err(BadArg)
    /\ op \in {"MSEncoder::new", "MSDecoder::new"}
         => IF Accepted(arg) THEN ffi # <<>>
            ELSE res = Err(BadArg) /\ ffi = <<>> /\ heap = <<>>

\* a mapping with a dropped channel and a coupled index given to two
\* channels is accepted
C26_Witness ==
    /\ op = "validate" /\ res.ok /\ arg.channels = 3
    /\ arg.mapping = <<0, 0, U8_MAX>> /\ arg.streams = 0

(***************************************************************************)
(* The other libopus create calls (opus_encoder.c, opus_decoder.c,         *)
(* repacketizer.c, opus_multistream_encoder.c, opus_projection_encoder.c,  *)
(* opus_projection_decoder.c).  Each returns NULL with an error code, or a *)
(* fresh state with OPUS_OK; opus_repacketizer_create has no error code.   *)
(***************************************************************************)
ValidFs == {8000, 12000, 16000, 24000, 48000}

Applications == {"Voip", "Audio", "RestrictedLowDelay"}

opus_encoder_create(h, Fs, channels, application, alloc) ==
    IF Fs \notin ValidFs \/ channels \notin {1, 2} \/ application \notin Applications
    THEN Created(OPUS_BAD_ARG, NullHandle, h)
    ELSE IF ~alloc THEN Created(OPUS_ALLOC_FAIL, NullHandle, h)
    ELSE Created(OPUS_OK, Len(h) + 1, Create(h, "OpusEncoder"))

opus_decoder_create(h, Fs, channels, alloc) ==
    IF Fs \notin ValidFs \/ channels \notin {1, 2}
    THEN Created(OPUS_BAD_ARG, NullHandle, h)
    ELSE IF ~alloc THEN Created(OPUS_ALLOC_FAIL, NullHandle, h)
    ELSE Created(OPUS_OK, Len(h) + 1, Create(h, "OpusDecoder"))

opus_repacketizer_create(h, alloc) ==
    IF ~alloc THEN Created(OPUS_OK, NullHandle, h)
    ELSE Created(OPUS_OK, Len(h) + 1, Create(h, "OpusRepacketizer"))

\* the ambisonic channels of a layout: the largest square up to channels
acn_channels(channels) ==
    CHOOSE a \in {k * k : k \in 1..15} :
        a <= channels /\ \A k \in 1..15 : k * k <= channels => k * k <= a

\* vorbis_mappings: streams, coupled streams and mapping for 1..8 channels
vorbis_mappings ==
    <<[streams |-> 1, coupled |-> 0, mapping |-> <<0>>],
      [streams |-> 1, coupled |-> 1, mapping |-> <<0, 1>>],
      [streams |-> 2, coupled |-> 1, mapping |-> <<0, 2, 1>>],
      [streams |-> 2, coupled |-> 2, mapping |-> <<0, 1, 2, 3>>],
      [streams |-> 3, coupled |-> 2, mapping |-> <<0, 4, 1, 2, 3>>],
      [streams |-> 4, coupled |-> 2, mapping |-> <<0, 4, 1, 2, 3, 5>>],
      [streams |-> 4, coupled |-> 3, mapping |-> <<0, 4, 1, 2, 3, 5, 6>>],
      [streams |-> 5, coupled |-> 3, mapping |-> <<0, 6, 1, 2, 3, 4, 5, 7>>]>>

NoLayout == [streams |-> 0, coupled |-> 0, mapping |-> <<>>]

\* the layout the surround encoder chooses for a mapping family, NoLayout
\* where it has none
surround_layout(channels, mapping_family) ==
    IF mapping_family = 0 /\ channels \in {1, 2} THEN vorbis_mappings[channels]
    ELSE IF mapping_family = 1 /\ channels \in 1..8 THEN vorbis_mappings[channels]
    ELSE IF mapping_family = 255
    THEN [streams |-> channels, coupled |-> 0,
          mapping |-> [i \in 1..channels |-> i - 1]]
    ELSE IF mapping_family = 2 /\ channels \in 1..227
            /\ channels - acn_channels(channels) \in {0, 2}
    THEN LET nondiegetic == channels - acn_channels(channels)
             coupled == BoolInt(nondiegetic # 0)
         IN  [streams |-> acn_channels(channels) + coupled, coupled |-> coupled,
              mapping |-> [i \in 1..channels |->
                              IF i <= channels - 2 * coupled
                              THEN (i - 1) + 2 * coupled
                              ELSE (i - 1) - (channels - 2 * coupled)]]
    ELSE NoLayout

\* what a surround or projection create call leaves: the layout too
CreatedLayout(c, layout) ==
    [err |-> c.err, handle |-> c.handle, heap |-> c.heap,
     streams |-> layout.streams, coupled |-> layout.coupled,
     mapping |-> layout.mapping]

opus_multistream_surround_encoder_create(h, Fs, channels, mapping_family, application, alloc) ==
    LET layout == surround_layout(channels, mapping_family)
    IN  IF channels > U8_MAX \/ channels < 1
        THEN CreatedLayout(Created(OPUS_BAD_ARG, NullHandle, h), NoLayout)
        ELSE IF layout = NoLayout
        THEN CreatedLayout(Created(OPUS_UNIMPLEMENTED, NullHandle, h), NoLayout)
        ELSE IF ~alloc
        THEN CreatedLayout(Created(OPUS_ALLOC_FAIL, NullHandle, h), NoLayout)
        ELSE CreatedLayout(Created(OPUS_OK, Len(h) + 1, Create(h, "OpusMSEncoder")),
                           layout)

\* mapping family 3 alone has a projection layout
projection_layout(channels, mapping_family) ==
    IF mapping_family = 3 /\ channels \in 1..227
       /\ channels - acn_channels(channels) \in {0, 2}
       /\ acn_channels(channels) \in {4, 9, 16, 25, 36}
    THEN [streams |-> (channels + 1) \div 2, coupled |-> channels \div 2,
          mapping |-> <<>>]
    ELSE NoLayout

opus_projection_ambisonics_encoder_create(h, Fs, channels, mapping_family, application, alloc) ==
    LET layout == projection_layout(channels, mapping_family)
    IN  IF layout = NoLayout \/ ~alloc
        THEN CreatedLayout(Created(OPUS_ALLOC_FAIL, NullHandle, h), NoLayout)
        ELSE CreatedLayout(
                 Created(OPUS_OK, Len(h) + 1, Create(h, "OpusProjectionEncoder")),
                 layout)

\* the demixing matrix holds two bytes for every pair of an input and an
\* output channel
opus_projection_decoder_create(h, Fs, channels, streams, coupled_streams, matrix_size, alloc) ==
    IF channels < 1 \/ streams < 0 \/ coupled_streams < 0
       \/ streams + coupled_streams < 1 \/ coupled_streams > streams
       \/ matrix_size # 2 * channels * (streams + coupled_streams)
       \/ Fs \notin ValidFs
    THEN Created(OPUS_BAD_ARG, NullHandle, h)
    ELSE IF ~alloc THEN Created(OPUS_ALLOC_FAIL, NullHandle, h)
    ELSE Created(OPUS_OK, Len(h) + 1, Create(h, "OpusProjectionDecoder"))

(***************************************************************************)
(* The constructors and destructors of the wrapper types.  A constructor   *)
(* yields the result, the native calls it made in order, the heap it       *)
(* leaves and the value it built (none on an error).                       *)
(***************************************************************************)
\* SampleRate::is_valid
is_valid(sr) == sr \in {8000, 12000, 16000, 24000, 48000}

\* u8::try_from(i32) succeeds
fits_u8(n) == n >= 0 /\ n <= U8_MAX

\* Encoder::new
Encoder_new(h, sample_rate, channels, application, alloc) ==
    IF ~is_valid(sample_rate) THEN Made(Err(Error("BadArg")), <<>>, h, <<>>)
    ELSE LET c == opus_encoder_create(h, sample_rate, channels, application, alloc)
             calls == <<"opus_encoder_create">>
         IN  IF c.err # 0 THEN Made(Err(from_code(c.err)), calls, c.heap, <<>>)
             ELSE IF c.handle = NullHandle
             THEN Made(Err(Error("AllocFail")), calls, c.heap, <<>>)
             ELSE Made(Ok(NoVal), calls, c.heap,
                       <<[type |-> "Encoder", raw |-> c.handle,
                          sample_rate |-> sample_rate, channels |-> channels]>>)

\* Decoder::new
Decoder_new(h, sample_rate, channels, alloc) ==
    IF ~is_valid(sample_rate) THEN Made(Err(Error("BadArg")), <<>>, h, <<>>)
    ELSE LET c == opus_decoder_create(h, sample_rate, channels, alloc)
             calls == <<"opus_decoder_create">>
         IN  IF c.err # 0 THEN Made(Err(from_code(c.err)), calls, c.heap, <<>>)
             ELSE IF c.handle = NullHandle
             THEN Made(Err(Error("AllocFail")), calls, c.heap, <<>>)
             ELSE Made(Ok(NoVal), calls, c.heap,
                       <<[type |-> "Decoder", raw |-> c.handle,
                          sample_rate |-> sample_rate, channels |-> channels]>>)

\* Repacketizer::new, as far as the native handle goes
Repacketizer_new_handle(h, alloc) ==
    LET c == opus_repacketizer_create(h, alloc)
        calls == <<"opus_repacketizer_create">>
    IN  IF c.handle = NullHandle
        THEN Made(Err(Error("AllocFail")), calls, c.heap, <<>>)
        ELSE Made(Ok(NoVal), calls, c.heap,
                  <<[type |-> "Repacketizer", raw |-> c.handle]>>)

\* MSEncoder::new_surround: the conversions of the stream counts come after
\* the create call and before the value is built
MSEncoder_new_surround(h, sr, channels, mapping_family, app, alloc) ==
    IF channels = 0 THEN Made(Err(Error("BadArg")), <<>>, h, <<>>)
    ELSE LET c == opus_multistream_surround_encoder_create(
                      h, sr, channels, mapping_family, app, alloc)
             calls == <<"opus_multistream_surround_encoder_create">>
         IN  IF c.err # 0 THEN Made(Err(from_code(c.err)), calls, c.heap, <<>>)
             ELSE IF c.handle = NullHandle
             THEN Made(Err(Error("AllocFail")), calls, c.heap, <<>>)
             ELSE IF ~fits_u8(c.streams) \/ ~fits_u8(c.coupled)
             THEN Made(Err(Error("BadArg")), calls, c.heap, <<>>)
             ELSE Made(Ok(NoVal), calls, c.heap,
                       <<[type |-> "MSEncoder", raw |-> c.handle,
                          sample_rate |-> sr, channels |-> channels,
                          streams |-> c.streams,
                          coupled_streams |-> c.coupled]>>)

\* the helper encoder of MSDecoder::new_surround is kept
MSDecoder_new_surround_keeps_helper(h, sr, channels, mapping_family, alloc, alloc_dec) ==
    IF channels = 0 THEN Made(Err(Error("BadArg")), <<>>, h, <<>>)
    ELSE LET e == opus_multistream_surround_encoder_create(
                      h, sr, channels, mapping_family, "Audio", alloc)
             d == opus_multistream_decoder_create(
                      e.heap, channels, e.streams, e.coupled, e.mapping, alloc_dec)
         IN  IF e.err # 0
             THEN Made(Err(from_code(e.err)),
                       <<"opus_multistream_surround_encoder_create">>, e.heap, <<>>)
             ELSE IF d.err # 0
             THEN Made(Err(from_code(d.err)),
                       <<"opus_multistream_surround_encoder_create",
                         "opus_multistream_decoder_create">>, d.heap, <<>>)
             ELSE Made(Ok(NoVal),
                       <<"opus_multistream_surround_encoder_create",
                         "opus_multistream_decoder_create">>, d.heap,
                       <<[type |-> "MSDecoder", raw |-> d.handle,
                          sample_rate |-> sr, channels |-> channels]>>)

\* MSDecoder::new_surround: a helper surround encoder supplies the layout and
\* is destroyed at once; the decoder value is built before the stream counts
\* are converted, so that a failed conversion drops it
MSDecoder_new_surround(h, sr, channels, mapping_family, alloc, alloc_dec) ==
    IF channels = 0 THEN Made(Err(Error("BadArg")), <<>>, h, <<>>)
    ELSE LET e == opus_multistream_surround_encoder_create(
                      h, sr, channels, mapping_family, "Audio", alloc)
             h1 == IF e.handle # NullHandle THEN Destroy(e.heap, e.handle)
                   ELSE e.heap
             calls1 == IF e.handle # NullHandle
                       THEN <<"opus_multistream_surround_encoder_create",
                              "opus_multistream_encoder_destroy">>
                       ELSE <<"opus_multistream_surround_encoder_create">>
             d == opus_multistream_decoder_create(
                      h1, channels, e.streams, e.coupled, e.mapping, alloc_dec)
             calls2 == Append(calls1, "opus_multistream_decoder_create")
         IN  IF e.err # 0 THEN Made(Err(from_code(e.err)), calls1, h1, <<>>)
             ELSE IF d.err # 0 THEN Made(Err(from_code(d.err)), calls2, d.heap, <<>>)
             ELSE IF d.handle = NullHandle
             THEN Made(Err(Error("AllocFail")), calls2, d.heap, <<>>)
             ELSE IF ~fits_u8(e.streams) \/ ~fits_u8(e.coupled)
             THEN Made(Err(Error("BadArg")),
                       Append(calls2, "opus_multistream_decoder_destroy"),
                       Destroy(d.heap, d.handle), <<>>)
             ELSE Made(Ok(NoVal), calls2, d.heap,
                       <<[type |-> "MSDecoder", raw |-> d.handle,
                          sample_rate |-> sr, channels |-> channels]>>)

\* ProjectionEncoder::new: the stream counts are converted inside the struct
\* literal, after the create call and before the value exists
ProjectionEncoder_new(h, sample_rate, channels, mapping_family, application, alloc) ==
    LET c == opus_projection_ambisonics_encoder_create(
                 h, sample_rate, channels, mapping_family, application, alloc)
        calls == <<"opus_projection_ambisonics_encoder_create">>
    IN  IF c.err # 0 THEN Made(Err(from_code(c.err)), calls, c.heap, <<>>)
        ELSE IF c.handle = NullHandle
        THEN Made(Err(Error("AllocFail")), calls, c.heap, <<>>)
        ELSE IF ~fits_u8(c.streams) \/ ~fits_u8(c.coupled)
        THEN Made(Err(Error("BadArg")), calls, c.heap, <<>>)
        ELSE Made(Ok(NoVal), calls, c.heap,
                  <<[type |-> "ProjectionEncoder", raw |-> c.handle,
                     sample_rate |-> sample_rate, channels |-> channels,
                     streams |-> c.streams, coupled_streams |-> c.coupled]>>)

\* ProjectionDecoder::new; matrix_len is the length of the demixing matrix
ProjectionDecoder_new(h, sample_rate, channels, streams, coupled_streams, matrix_len, alloc) ==
    IF matrix_len = 0 THEN Made(Err(Error("BadArg")), <<>>, h, <<>>)
    ELSE IF ~fits_i32(matrix_len) THEN Made(Err(Error("BadArg")), <<>>, h, <<>>)
    ELSE LET c == opus_projection_decoder_create(
                      h, sample_rate, channels, streams, coupled_streams,
                      matrix_len, alloc)
             calls == <<"opus_projection_decoder_create">>
         IN  IF c.err # 0 THEN Made(Err(from_code(c.err)), calls, c.heap, <<>>)
             ELSE IF c.handle = NullHandle
             THEN Made(Err(Error("AllocFail")), calls, c.heap, <<>>)
             ELSE Made(Ok(NoVal), calls, c.heap,
                       <<[type |-> "ProjectionDecoder", raw |-> c.handle,
                          sample_rate |-> sample_rate, channels |-> channels,
                          streams |-> streams,
                          coupled_streams |-> coupled_streams]>>)

\* Drop::drop of the wrapper types: each calls the destroy function of its
\* handle; the projection types skip a null handle
drop(h, self) ==
    IF self.type \in {"ProjectionEncoder", "ProjectionDecoder"}
       /\ self.raw = NullHandle
    THEN h
    ELSE Destroy(h, self.raw)

\* the destroy call of a type
destroy_call(type) ==
    CASE type = "Encoder" -> "opus_encoder_destroy"
      [] type = "Decoder" -> "opus_decoder_destroy"
      [] type = "MSEncoder" -> "opus_multistream_encoder_destroy"
      [] type = "MSDecoder" -> "opus_multistream_decoder_destroy"
      [] type = "ProjectionEncoder" -> "opus_projection_encoder_destroy"
      [] type = "ProjectionDecoder" -> "opus_projection_decoder_destroy"
      [] type = "Repacketizer" -> "opus_repacketizer_destroy"

(***************************************************************************)
(* Lifecycle: values of the seven wrapper types are constructed, used and  *)
(* dropped in any order.  objs holds the live values, heap every native    *)
(* state ever created.                                                     *)
(***************************************************************************)
MaxHandles == 2

LifeChannels == {0, 1, 2, 3, 4, 255}

LifeFamilies == {0, 1, 2, 3, 255}

LifeMappings ==
    {[channels |-> 2, streams |-> 1, coupled_streams |-> 1, mapping |-> <<0, 1>>],
     [channels |-> 2, streams |-> 1, coupled_streams |-> 0, mapping |-> <<0, 0>>],
     [channels |-> 2, streams |-> 2, coupled_streams |-> 0, mapping |-> <<0, U8_MAX>>],
     [channels |-> 1, streams |-> 1, coupled_streams |-> 0, mapping |-> <<3>>]}

LifeInit ==
    /\ NoObjects
    /\ op = "none"
    /\ arg = <<>>
    /\ res = Ok(NoVal)

\* a constructor call: its value, if any, joins the live values
Construct(name, made) ==
    /\ Len(heap) < MaxHandles
    /\ op' = name
    /\ arg' = <<>>
    /\ res' = made.r
    /\ ffi' = made.calls
    /\ heap' = made.heap
    /\ objs' = objs \o made.objs
    /\ UNCHANGED native
    /\ UNCHANGED <<buf, plen, pre, repk, mem, pushed>>

EncoderNew ==
    \E channels \in {1, 2}, alloc \in BOOLEAN :
        \E made \in {Encoder_new(heap, 48000, channels, "Audio", alloc)} :
            Construct("Encoder::new", made)

DecoderNew ==
    \E channels \in {1, 2}, alloc \in BOOLEAN :
        \E made \in {Decoder_new(heap, 48000, channels, alloc)} :
            Construct("Decoder::new", made)

RepacketizerNew ==
    \E alloc \in BOOLEAN :
        \E made \in {Repacketizer_new_handle(heap, alloc)} :
            Construct("Repacketizer::new", made)

LifeMSEncoderNew ==
    \E mapping \in LifeMappings, alloc \in BOOLEAN :
        \E made \in {MSEncoder_new(heap, 48000, "Audio", mapping, alloc)} :
            Construct("MSEncoder::new", made)

LifeMSDecoderNew ==
    \E mapping \in LifeMappings, alloc \in BOOLEAN :
        \E made \in {MSDecoder_new(heap, 48000, mapping, alloc)} :
            Construct("MSDecoder::new", made)

MSEncoderNewSurround ==
    \E channels \in LifeChannels, family \in LifeFamilies, alloc \in BOOLEAN :
        \E made \in {MSEncoder_new_surround(heap, 48000, channels, family, "Audio", alloc)} :
            Construct("MSEncoder::new_surround", made)

MSDecoderNewSurround ==
    \E channels \in LifeChannels, family \in LifeFamilies, alloc \in BOOLEAN, alloc_dec \in BOOLEAN :
        \E made \in {MSDecoder_new_surround(heap, 48000, channels, family, alloc, alloc_dec)} :
            Construct("MSDecoder::new_surround", made)

ProjectionEncoderNew ==
    \E channels \in LifeChannels, family \in LifeFamilies, alloc \in BOOLEAN :
        \E made \in {ProjectionEncoder_new(heap, 48000, channels, family, "Audio", alloc)} :
            Construct("ProjectionEncoder::new", made)

ProjectionDecoderNew ==
    \E channels \in {1, 4}, matrix_len \in {0, 16, 17}, alloc \in BOOLEAN :
        \E made \in {ProjectionDecoder_new(heap, 48000, channels, 2, 2, matrix_len, alloc)} :
            Construct("ProjectionDecoder::new", made)

\* any method of a live value hands its handle to libopus
MethodCall ==
    \E i \in 1..Len(objs) :
        /\ op' = "method"
        /\ arg' = <<>>
        /\ res' = Ok(NoVal)
        /\ ffi' = <<"use">>
        /\ heap' = Use(heap, objs[i].raw)
        /\ UNCHANGED <<objs, native, buf, plen, pre, repk, mem, pushed>>

\* a live value goes out of scope
DropValue ==
    \E i \in 1..Len(objs) :
        /\ op' = "drop"
        /\ arg' = <<>>
        /\ res' = Ok(NoVal)
        /\ ffi' = <<destroy_call(objs[i].type)>>
        /\ heap' = drop(heap, objs[i])
        /\ objs' = SubSeq(objs, 1, i - 1) \o SubSeq(objs, i + 1, Len(objs))
        /\ UNCHANGED native
        /\ UNCHANGED <<buf, plen, pre, repk, mem, pushed>>

LifeNext ==
    \/ EncoderNew
    \/ DecoderNew
    \/ RepacketizerNew
    \/ LifeMSEncoderNew
    \/ LifeMSDecoderNew
    \/ MSEncoderNewSurround
    \/ MSDecoderNewSurround
    \/ ProjectionEncoderNew
    \/ ProjectionDecoderNew
    \/ MethodCall
    \/ DropValue

LifeSpec == LifeInit /\ [][LifeNext]_vars

\* the live values that own a native state
Owners(id) == {i \in 1..Len(objs) : objs[i].raw = id}

OPUS_AUTO == -1000

OPUS_BITRATE_MAX == -1

OPUS_SIGNAL_VOICE == 3001

OPUS_SIGNAL_MUSIC == 3002

OPUS_BANDWIDTH_NARROWBAND == 1101

OPUS_BANDWIDTH_MEDIUMBAND == 1102

OPUS_BANDWIDTH_WIDEBAND == 1103

OPUS_BANDWIDTH_SUPERWIDEBAND == 1104

OPUS_BANDWIDTH_FULLBAND == 1105

\* opus_encoder_init
opus_encoder_init(Fs, channels) ==
    [Fs |-> Fs, channels |-> channels,
     user_bitrate_bps |-> OPUS_AUTO, complexity |-> 9, use_vbr |-> 1,
     vbr_constraint |-> 1, fec_config |-> 0, packetLossPercentage |-> 0,
     signal_type |-> OPUS_AUTO, max_bandwidth |-> OPUS_BANDWIDTH_FULLBAND,
     force_channels |-> OPUS_AUTO, disable_inv |-> BoolInt(channels = 1),
     prev_framesize |-> 0, coded |-> 0]

\* opus_decoder_init
opus_decoder_init(Fs, channels) ==
    [Fs |-> Fs, channels |-> channels, decode_gain |-> 0,
     disable_inv |-> BoolInt(channels = 1), last_packet_duration |-> 0,
     coded |-> 0]

\* the frame sizes libopus codes: 2.5, 5, 10, 20, 40, 60, 80, 100, 120 ms
legal_frame_size(Fs, frame_size) ==
    \E k \in {1, 2, 4, 8, 16, 24, 32, 40, 48} : 400 * frame_size = k * Fs

\* the bytes of a coded packet
CodedByte == 85

CodedLen == 3

\* opus_encode: the return value, the encoder state and the output buffer
opus_encode(st, frame_size, data, max_data_bytes) ==
    IF ~legal_frame_size(st.Fs, frame_size) \/ max_data_bytes <= 0
    THEN [ret |-> OPUS_BAD_ARG, st |-> st, data |-> data]
    ELSE LET n == IF max_data_bytes < CodedLen THEN max_data_bytes ELSE CodedLen
         IN  [ret |-> n,
              st |-> [st EXCEPT !.prev_framesize = frame_size, !.coded = @ + 1],
              data |-> [i \in 1..Len(data) |-> IF i <= n THEN CodedByte ELSE data[i]]]

(***************************************************************************)
(* Encoder::encode.  self is the wrapper value, st the native state behind *)
(* self.raw, input_len the length of the input slice and output the output *)
(* slice.                                                                  *)
(***************************************************************************)
MAX_FRAME_SAMPLES_48KHZ == 5760

max_frame_samples_for(sample_rate) ==
    (MAX_FRAME_SAMPLES_48KHZ * sample_rate) \div 48000

\* what a call on a codec leaves: result, native calls, state, output
Coded(r, calls, st, output) == [r |-> r, calls |-> calls, st |-> st, output |-> output]

\* the empty output buffer is handed to libopus
Encoder_encode_no_output_check(self, st, input_len, output) ==
    IF input_len = 0 \/ input_len % self.channels # 0
       \/ input_len \div self.channels > max_frame_samples_for(self.sample_rate)
    THEN Coded(Err(Error("BadArg")), <<>>, st, output)
    ELSE LET e == opus_encode(st, input_len \div self.channels, output, Len(output))
         IN  IF e.ret < 0
             THEN Coded(Err(from_code(e.ret)), <<"opus_encode">>, e.st, e.data)
             ELSE Coded(Ok(e.ret), <<"opus_encode">>, e.st, e.data)

Encoder_encode(self, st, input_len, output) ==
    IF self.raw = NullHandle THEN Coded(Err(Error("InvalidState")), <<>>, st, output)
    ELSE IF input_len = 0 THEN Coded(Err(Error("BadArg")), <<>>, st, output)
    ELSE IF input_len % self.channels # 0
    THEN Coded(Err(Error("BadArg")), <<>>, st, output)
    ELSE LET frame_size == input_len \div self.channels
         IN  IF frame_size = 0 \/ frame_size > max_frame_samples_for(self.sample_rate)
             THEN Coded(Err(Error("BadArg")), <<>>, st, output)
             ELSE IF Len(output) = 0 THEN Coded(Err(Error("BadArg")), <<>>, st, output)
             ELSE IF ~fits_i32(Len(output))
             THEN Coded(Err(Error("BadArg")), <<>>, st, output)
             ELSE IF ~fits_i32(frame_size)
             THEN Coded(Err(Error("BadArg")), <<>>, st, output)
             ELSE LET e == opus_encode(st, frame_size, output, Len(output))
                  IN  IF e.ret < 0
                      THEN Coded(Err(from_code(e.ret)), <<"opus_encode">>, e.st, e.data)
                      ELSE Coded(Ok(e.ret), <<"opus_encode">>, e.st, e.data)

(***************************************************************************)
(* Encoding: one Encoder, constructed with success, is given inputs of any *)
(* length in InputLens and output buffers of any capacity in EncodeCaps.   *)
(***************************************************************************)
MaxEncodes == 2

InputLens ==
    {0, 1, 20, 160, 161, 320, 960, 961, 962, 1920, 1921, 1922,
     5760, 5761, 5762, 11520, 11522}

EncodeCaps == {0, 1, 4}

\* what the output buffer holds before a call
StaleByte == 170

EncInit ==
    /\ plen = 0
    /\ pre = <<>>
    /\ buf = <<>>
    /\ ffi = <<>>
    /\ repk = opus_repacketizer_init
    /\ mem = <<>>
    /\ pushed = <<>>
    /\ op = "none"
    /\ arg = [input_len |-> 0, cap |-> 0]
    /\ res = Ok(NoVal)
    /\ \E sample_rate \in SampleRates, channels \in {1, 2} :
        \E made \in {Encoder_new(<<>>, sample_rate, channels, "Audio", TRUE)} :
            /\ heap = made.heap
            /\ objs = made.objs
            /\ native = <<opus_encoder_init(sample_rate, channels)>>

Encode ==
    \E input_len \in InputLens, cap \in EncodeCaps :
        \E e \in {Encoder_encode(objs[1], native[objs[1].raw], input_len,
                                 [i \in 1..cap |-> StaleByte])} :
            /\ native[objs[1].raw].coded < MaxEncodes
            /\ op' = "encode"
            /\ arg' = [input_len |-> input_len, cap |-> cap]
            /\ res' = e.r
            /\ ffi' = e.calls
            /\ pre' = [i \in 1..cap |-> StaleByte]
            /\ buf' = e.output
            /\ plen' = IF e.r.ok THEN e.r.val ELSE 0
            /\ native' = [native EXCEPT ![objs[1].raw] = e.st]
            /\ heap' = Use(heap, objs[1].raw)
            /\ UNCHANGED <<objs, repk, mem, pushed>>

EncNext == Encode

EncSpec == EncInit /\ [][EncNext]_vars

\* the input or the output of the call is one the claim names
RejectedInput(a, self) ==
    \/ a.input_len = 0
    \/ a.input_len % self.channels # 0
    \/ a.input_len \div self.channels > max_frame_samples_for(self.sample_rate)
    \/ a.cap = 0

\* C22: when the input is empty, its length is not a multiple of the channel
\* count, the frame size per channel exceeds max_frame_samples_for of the
\* sample rate, or the output buffer is empty, Encoder::encode returns BadArg
\* without calling libopus, and leaves the encoder state and the output
\* buffer as they were.
C22_EncodeGuards ==
    [][(op' = "encode" /\ RejectedInput(arg', objs[1]))
        => /\ res' = Err(Error("BadArg"))
           /\ ffi' = <<>>
           /\ native' = native
           /\ buf' = pre']_vars

\* 960 samples for a mono 48 kHz encoder that has coded a frame before, and
\* an empty output buffer: BadArg and no call
C22_Witness ==
    /\ op = "encode"
    /\ arg = [input_len |-> 960, cap |-> 0]
    /\ objs[1].channels = 1
    /\ objs[1].sample_rate = 48000
    /\ native[1].coded = 1
    /\ res = Err(Error("BadArg"))
    /\ ffi = <<>>

(***************************************************************************)
(* libopus CTLs (opus_encoder_ctl, opus_decoder_ctl): a request either     *)
(* stores an argument it accepts, or reads a setting back.  The result is  *)
(* the return code, the state and, for a read, the value.                  *)
(***************************************************************************)
\* the highest bitrate per channel that OPUS_SET_BITRATE stores
MaxBitratePerChannel == 750000

CtlDone(ret, st, value) == [ret |-> ret, st |-> st, value |-> value]

\* user_bitrate_to_bitrate: what OPUS_GET_BITRATE reports
user_bitrate_to_bitrate(st, frame_size, max_data_bytes) ==
    LET fs == IF frame_size = 0 THEN st.Fs \div 400 ELSE frame_size
    IN  IF st.user_bitrate_bps = OPUS_AUTO
        THEN (60 * st.Fs) \div fs + st.Fs * st.channels
        ELSE IF st.user_bitrate_bps = OPUS_BITRATE_MAX
        THEN (max_data_bytes * 8 * st.Fs) \div fs
        ELSE st.user_bitrate_bps

\* a request that stores value where it is in range, OPUS_BAD_ARG otherwise
StoreIf(in_range, st, stored) ==
    IF in_range THEN CtlDone(OPUS_OK, stored, 0) ELSE CtlDone(OPUS_BAD_ARG, st, 0)

opus_encoder_ctl(st, request, value) ==
    CASE request = "OPUS_SET_BITRATE_REQUEST" ->
            IF value \in {OPUS_AUTO, OPUS_BITRATE_MAX}
            THEN CtlDone(OPUS_OK, [st EXCEPT !.user_bitrate_bps = value], 0)
            ELSE IF value <= 0 THEN CtlDone(OPUS_BAD_ARG, st, 0)
            ELSE IF value <= 500
            THEN CtlDone(OPUS_OK, [st EXCEPT !.user_bitrate_bps = 500], 0)
            ELSE IF value > MaxBitratePerChannel * st.channels
            THEN CtlDone(OPUS_OK,
                         [st EXCEPT !.user_bitrate_bps =
                                        MaxBitratePerChannel * st.channels], 0)
            ELSE CtlDone(OPUS_OK, [st EXCEPT !.user_bitrate_bps = value], 0)
      [] request = "OPUS_GET_BITRATE_REQUEST" ->
            CtlDone(OPUS_OK, st, user_bitrate_to_bitrate(st, st.prev_framesize, 1276))
      [] request = "OPUS_SET_COMPLEXITY_REQUEST" ->
            StoreIf(value \in 0..10, st, [st EXCEPT !.complexity = value])
      [] request = "OPUS_GET_COMPLEXITY_REQUEST" -> CtlDone(OPUS_OK, st, st.complexity)
      [] request = "OPUS_SET_VBR_REQUEST" ->
            StoreIf(value \in 0..1, st, [st EXCEPT !.use_vbr = value])
      [] request = "OPUS_GET_VBR_REQUEST" -> CtlDone(OPUS_OK, st, st.use_vbr)
      [] request = "OPUS_SET_VBR_CONSTRAINT_REQUEST" ->
            StoreIf(value \in 0..1, st, [st EXCEPT !.vbr_constraint = value])
      [] request = "OPUS_GET_VBR_CONSTRAINT_REQUEST" ->
            CtlDone(OPUS_OK, st, st.vbr_constraint)
      [] request = "OPUS_SET_INBAND_FEC_REQUEST" ->
            StoreIf(value \in 0..2, st, [st EXCEPT !.fec_config = value])
      [] request = "OPUS_GET_INBAND_FEC_REQUEST" -> CtlDone(OPUS_OK, st, st.fec_config)
      [] request = "OPUS_SET_PACKET_LOSS_PERC_REQUEST" ->
            StoreIf(value \in 0..100, st, [st EXCEPT !.packetLossPercentage = value])
      [] request = "OPUS_GET_PACKET_LOSS_PERC_REQUEST" ->
            CtlDone(OPUS_OK, st, st.packetLossPercentage)
      [] request = "OPUS_SET_SIGNAL_REQUEST" ->
            StoreIf(value \in {OPUS_AUTO, OPUS_SIGNAL_VOICE, OPUS_SIGNAL_MUSIC},
                    st, [st EXCEPT !.signal_type = value])
      [] request = "OPUS_GET_SIGNAL_REQUEST" -> CtlDone(OPUS_OK, st, st.signal_type)
      [] request = "OPUS_SET_MAX_BANDWIDTH_REQUEST" ->
            StoreIf(value \in OPUS_BANDWIDTH_NARROWBAND..OPUS_BANDWIDTH_FULLBAND,
                    st, [st EXCEPT !.max_bandwidth = value])
      [] request = "OPUS_GET_MAX_BANDWIDTH_REQUEST" ->
            CtlDone(OPUS_OK, st, st.max_bandwidth)
      [] request = "OPUS_SET_FORCE_CHANNELS_REQUEST" ->
            StoreIf(value \in 1..st.channels \/ value = OPUS_AUTO,
                    st, [st EXCEPT !.force_channels = value])
      [] request = "OPUS_GET_FORCE_CHANNELS_REQUEST" ->
            CtlDone(OPUS_OK, st, st.force_channels)
      [] request = "OPUS_SET_PHASE_INVERSION_DISABLED_REQUEST" ->
            StoreIf(value \in 0..1, st, [st EXCEPT !.disable_inv = value])
      [] request = "OPUS_GET_PHASE_INVERSION_DISABLED_REQUEST" ->
            CtlDone(OPUS_OK, st, st.disable_inv)
      [] request = "OPUS_RESET_STATE" ->
            CtlDone(OPUS_OK, [st EXCEPT !.prev_framesize = 0, !.coded = 0], 0)
      [] OTHER -> CtlDone(OPUS_UNIMPLEMENTED, st, 0)

opus_decoder_ctl(st, request, value) ==
    CASE request = "OPUS_SET_GAIN_REQUEST" ->
            StoreIf(value \in -32768..32767, st, [st EXCEPT !.decode_gain = value])
      [] request = "OPUS_GET_GAIN_REQUEST" -> CtlDone(OPUS_OK, st, st.decode_gain)
      [] request = "OPUS_SET_PHASE_INVERSION_DISABLED_REQUEST" ->
            StoreIf(value \in 0..1, st, [st EXCEPT !.disable_inv = value])
      [] request = "OPUS_GET_PHASE_INVERSION_DISABLED_REQUEST" ->
            CtlDone(OPUS_OK, st, st.disable_inv)
      [] request = "OPUS_RESET_STATE" ->
            CtlDone(OPUS_OK, [st EXCEPT !.last_packet_duration = 0, !.coded = 0], 0)
      [] OTHER -> CtlDone(OPUS_UNIMPLEMENTED, st, 0)

\* the CTL function of the wrapper type
native_ctl(self, st, request, value) ==
    IF self.type = "Encoder" THEN opus_encoder_ctl(st, request, value)
    ELSE opus_decoder_ctl(st, request, value)

(***************************************************************************)
(* The CTL wrappers of Encoder and Decoder.  A setting is named by its     *)
(* getter: "Encoder::bitrate", ..., "Decoder::gain".                       *)
(***************************************************************************)
\* Bitrate and Bitrate::value
BitrateAuto == [tag |-> "Auto", bps |-> 0]

BitrateMax == [tag |-> "Max", bps |-> 0]

BitrateCustom(bps) == [tag |-> "Custom", bps |-> bps]

Bitrate_value(self) ==
    IF self.tag = "Auto" THEN OPUS_AUTO
    ELSE IF self.tag = "Max" THEN OPUS_BITRATE_MAX
    ELSE self.bps

\* Bandwidth as i32
Bandwidth_as_i32(bw) ==
    CASE bw = "Narrowband" -> OPUS_BANDWIDTH_NARROWBAND
      [] bw = "Mediumband" -> OPUS_BANDWIDTH_MEDIUMBAND
      [] bw = "Wideband" -> OPUS_BANDWIDTH_WIDEBAND
      [] bw = "SuperWideband" -> OPUS_BANDWIDTH_SUPERWIDEBAND
      [] bw = "Fullband" -> OPUS_BANDWIDTH_FULLBAND

\* simple_ctl of Encoder and of Decoder
simple_ctl(self, st, req, val) ==
    IF self.raw = NullHandle THEN Coded(Err(Error("InvalidState")), <<>>, st, <<>>)
    ELSE LET c == native_ctl(self, st, req, val)
         IN  IF c.ret # 0 THEN Coded(Err(from_code(c.ret)), <<req>>, c.st, <<>>)
             ELSE Coded(Ok(NoVal), <<req>>, c.st, <<>>)

\* get_int_ctl of Encoder and of Decoder
get_int_ctl(self, st, req) ==
    IF self.raw = NullHandle THEN Coded(Err(Error("InvalidState")), <<>>, st, <<>>)
    ELSE LET c == native_ctl(self, st, req, 0)
         IN  IF c.ret # 0 THEN Coded(Err(from_code(c.ret)), <<req>>, c.st, <<>>)
             ELSE Coded(Ok(c.value), <<req>>, c.st, <<>>)

\* a getter that decodes what get_int_ctl read
Decoded(got, value) ==
    IF got.r.ok THEN Coded(Ok(value), got.calls, got.st, <<>>) ELSE got

\* get_bandwidth_ctl
get_bandwidth_ctl(self, st, req) ==
    LET got == get_int_ctl(self, st, req)
        v == got.r.val
    IN  IF ~got.r.ok THEN got
        ELSE IF v < 0 THEN Coded(Err(Error("InternalError")), got.calls, got.st, <<>>)
        ELSE IF v = OPUS_BANDWIDTH_NARROWBAND THEN Decoded(got, "Narrowband")
        ELSE IF v = OPUS_BANDWIDTH_MEDIUMBAND THEN Decoded(got, "Mediumband")
        ELSE IF v = OPUS_BANDWIDTH_WIDEBAND THEN Decoded(got, "Wideband")
        ELSE IF v = OPUS_BANDWIDTH_SUPERWIDEBAND THEN Decoded(got, "SuperWideband")
        ELSE IF v = OPUS_BANDWIDTH_FULLBAND THEN Decoded(got, "Fullband")
        ELSE Coded(Err(Error("InternalError")), got.calls, got.st, <<>>)

\* the setters: set_bitrate, set_complexity, set_vbr, set_vbr_constraint,
\* set_inband_fec, set_packet_loss_perc, set_signal, set_max_bandwidth,
\* set_force_channels, set_phase_inversion_disabled of Encoder; set_gain and
\* set_phase_inversion_disabled of Decoder
Wrapper_set(self, st, setting, v) ==
    CASE setting = "Encoder::bitrate" ->
            simple_ctl(self, st, "OPUS_SET_BITRATE_REQUEST", Bitrate_value(v))
      [] setting = "Encoder::complexity" ->
            simple_ctl(self, st, "OPUS_SET_COMPLEXITY_REQUEST", v)
      [] setting = "Encoder::vbr" ->
            simple_ctl(self, st, "OPUS_SET_VBR_REQUEST", BoolInt(v))
      [] setting = "Encoder::vbr_constraint" ->
            simple_ctl(self, st, "OPUS_SET_VBR_CONSTRAINT_REQUEST", BoolInt(v))
      [] setting = "Encoder::inband_fec" ->
            simple_ctl(self, st, "OPUS_SET_INBAND_FEC_REQUEST", BoolInt(v))
      [] setting = "Encoder::packet_loss_perc" ->
            IF v \notin 0..100 THEN Coded(Err(Error("BadArg")), <<>>, st, <<>>)
            ELSE simple_ctl(self, st, "OPUS_SET_PACKET_LOSS_PERC_REQUEST", v)
      [] setting = "Encoder::signal" ->
            simple_ctl(self, st, "OPUS_SET_SIGNAL_REQUEST",
                       IF v = "Voice" THEN OPUS_SIGNAL_VOICE ELSE OPUS_SIGNAL_MUSIC)
      [] setting = "Encoder::max_bandwidth" ->
            simple_ctl(self, st, "OPUS_SET_MAX_BANDWIDTH_REQUEST", Bandwidth_as_i32(v))
      [] setting = "Encoder::force_channels" ->
            simple_ctl(self, st, "OPUS_SET_FORCE_CHANNELS_REQUEST",
                       IF v = "Mono" THEN 1 ELSE IF v = "Stereo" THEN 2 ELSE OPUS_AUTO)
      [] setting = "Encoder::phase_inversion_disabled" ->
            simple_ctl(self, st, "OPUS_SET_PHASE_INVERSION_DISABLED_REQUEST", BoolInt(v))
      [] setting = "Decoder::gain" ->
            simple_ctl(self, st, "OPUS_SET_GAIN_REQUEST", v)
      [] setting = "Decoder::phase_inversion_disabled" ->
            simple_ctl(self, st, "OPUS_SET_PHASE_INVERSION_DISABLED_REQUEST", BoolInt(v))

\* the getters: bitrate, complexity, vbr, vbr_constraint, inband_fec,
\* packet_loss_perc, signal, max_bandwidth, force_channels,
\* phase_inversion_disabled of Encoder; gain and phase_inversion_disabled of
\* Decoder
Wrapper_get(self, st, setting) ==
    CASE setting = "Encoder::bitrate" ->
            LET got == get_int_ctl(self, st, "OPUS_GET_BITRATE_REQUEST")
            IN  IF got.r.val = OPUS_AUTO THEN Decoded(got, BitrateAuto)
                ELSE IF got.r.val = OPUS_BITRATE_MAX THEN Decoded(got, BitrateMax)
                ELSE Decoded(got, BitrateCustom(got.r.val))
      [] setting = "Encoder::complexity" ->
            LET got == get_int_ctl(self, st, "OPUS_GET_COMPLEXITY_REQUEST")
            IN  IF got.r.ok /\ got.r.val < 0
                THEN Coded(Err(Error("InternalError")), got.calls, got.st, <<>>)
                ELSE got
      [] setting = "Encoder::vbr" ->
            LET got == get_int_ctl(self, st, "OPUS_GET_VBR_REQUEST")
            IN  Decoded(got, got.r.val # 0)
      [] setting = "Encoder::vbr_constraint" ->
            LET got == get_int_ctl(self, st, "OPUS_GET_VBR_CONSTRAINT_REQUEST")
            IN  Decoded(got, got.r.val # 0)
      [] setting = "Encoder::inband_fec" ->
            LET got == get_int_ctl(self, st, "OPUS_GET_INBAND_FEC_REQUEST")
            IN  Decoded(got, got.r.val # 0)
      [] setting = "Encoder::packet_loss_perc" ->
            get_int_ctl(self, st, "OPUS_GET_PACKET_LOSS_PERC_REQUEST")
      [] setting = "Encoder::signal" ->
            LET got == get_int_ctl(self, st, "OPUS_GET_SIGNAL_REQUEST")
            IN  IF ~got.r.ok THEN got
                ELSE IF got.r.val = OPUS_SIGNAL_VOICE THEN Decoded(got, "Voice")
                ELSE IF got.r.val = OPUS_SIGNAL_MUSIC THEN Decoded(got, "Music")
                ELSE Coded(Err(Error("InternalError")), got.calls, got.st, <<>>)
      [] setting = "Encoder::max_bandwidth" ->
            get_bandwidth_ctl(self, st, "OPUS_GET_MAX_BANDWIDTH_REQUEST")
      [] setting = "Encoder::force_channels" ->
            LET got == get_int_ctl(self, st, "OPUS_GET_FORCE_CHANNELS_REQUEST")
            IN  IF got.r.val = 1 THEN Decoded(got, "Mono")
                ELSE IF got.r.val = 2 THEN Decoded(got, "Stereo")
                ELSE Decoded(got, "None")
      [] setting = "Encoder::phase_inversion_disabled" ->
            LET got == get_int_ctl(self, st, "OPUS_GET_PHASE_INVERSION_DISABLED_REQUEST")
            IN  Decoded(got, got.r.val # 0)
      [] setting = "Decoder::gain" ->
            get_int_ctl(self, st, "OPUS_GET_GAIN_REQUEST")
      [] setting = "Decoder::phase_inversion_disabled" ->
            LET got == get_int_ctl(self, st, "OPUS_GET_PHASE_INVERSION_DISABLED_REQUEST")
            IN  Decoded(got, got.r.val # 0)

\* Encoder::reset and Decoder::reset
Wrapper_reset(self, st) ==
    IF self.raw = NullHandle THEN Coded(Err(Error("InvalidState")), <<>>, st, <<>>)
    ELSE LET c == native_ctl(self, st, "OPUS_RESET_STATE", 0)
         IN  IF c.ret # 0
             THEN Coded(Err(from_code(c.ret)), <<"OPUS_RESET_STATE">>, c.st, <<>>)
             ELSE Coded(Ok(NoVal), <<"OPUS_RESET_STATE">>, c.st, <<>>)

(***************************************************************************)
(* CTL calls: one Encoder and one Decoder, both constructed with success.  *)
(* A run works on two settings (pre names them) and calls their setters    *)
(* and getters in any order, with resets and coded frames in between.      *)
(* pushed holds, per setting, the value its setter took last with success. *)
(***************************************************************************)
Settings ==
    <<"Encoder::bitrate", "Encoder::complexity", "Encoder::vbr",
      "Encoder::vbr_constraint", "Encoder::inband_fec",
      "Encoder::packet_loss_perc", "Encoder::signal", "Encoder::max_bandwidth",
      "Encoder::force_channels", "Encoder::phase_inversion_disabled",
      "Decoder::gain", "Decoder::phase_inversion_disabled">>

\* the arguments a setter is called with
SettingValues(setting) ==
    CASE setting = "Encoder::bitrate" ->
            {BitrateAuto, BitrateMax, BitrateCustom(0), BitrateCustom(100),
             BitrateCustom(96000), BitrateCustom(2000000)}
      [] setting = "Encoder::complexity" -> {0, 4, 10}
      [] setting = "Encoder::packet_loss_perc" -> {-1, 0, 15, 100, 101}
      [] setting = "Encoder::signal" -> {"Voice", "Music"}
      [] setting = "Encoder::max_bandwidth" ->
            {"Narrowband", "Mediumband", "Wideband", "SuperWideband", "Fullband"}
      [] setting = "Encoder::force_channels" -> {"None", "Mono", "Stereo"}
      [] setting = "Decoder::gain" -> {-32769, -32768, 0, 256, 32767, 32768}
      [] OTHER -> BOOLEAN

\* the live value a setting belongs to: the Encoder is first, the Decoder second
OwnerOf(setting) ==
    IF setting \in {"Decoder::gain", "Decoder::phase_inversion_disabled"} THEN 2 ELSE 1

CtlInit ==
    /\ plen = 0
    /\ buf = <<>>
    /\ ffi = <<>>
    /\ repk = opus_repacketizer_init
    /\ mem = <<>>
    /\ pushed = <<>>
    /\ op = "none"
    /\ arg = [setting |-> "none", v |-> NoVal]
    /\ res = Ok(NoVal)
    /\ \E i \in 1..Len(Settings), j \in 1..Len(Settings) :
        /\ i <= j
        /\ pre = <<Settings[i], Settings[j]>>
    /\ \E channels \in {1, 2} :
        \E enc \in {Encoder_new(<<>>, 48000, channels, "Audio", TRUE)} :
            \E dec \in {Decoder_new(enc.heap, 48000, channels, TRUE)} :
                /\ heap = dec.heap
                /\ objs = enc.objs \o dec.objs
                /\ native = <<opus_encoder_init(48000, channels),
                              opus_decoder_init(48000, channels)>>

\* the values set last, with the one of this setting replaced
Remember(log, setting, v) ==
    SelectSeq(log, LAMBDA e : e.setting # setting)
        \o <<[setting |-> setting, v |-> v]>>

CtlSet ==
    \E k \in 1..2 :
        \E v \in SettingValues(pre[k]) :
            \E c \in {Wrapper_set(objs[OwnerOf(pre[k])],
                                  native[objs[OwnerOf(pre[k])].raw], pre[k], v)} :
                /\ op' = "set"
                /\ arg' = [setting |-> pre[k], v |-> v]
                /\ res' = c.r
                /\ ffi' = c.calls
                /\ native' = [native EXCEPT ![objs[OwnerOf(pre[k])].raw] = c.st]
                /\ pushed' = IF c.r.ok THEN Remember(pushed, pre[k], v) ELSE pushed
                /\ UNCHANGED <<pre, buf, plen, repk, mem, heap, objs>>

CtlGet ==
    \E k \in 1..2 :
        \E c \in {Wrapper_get(objs[OwnerOf(pre[k])],
                              native[objs[OwnerOf(pre[k])].raw], pre[k])} :
            /\ op' = "get"
            /\ arg' = [setting |-> pre[k], v |-> NoVal]
            /\ res' = c.r
            /\ ffi' = c.calls
            /\ native' = [native EXCEPT ![objs[OwnerOf(pre[k])].raw] = c.st]
            /\ UNCHANGED <<pre, pushed, buf, plen, repk, mem, heap, objs>>

CtlReset ==
    \E k \in 1..2 :
        \E c \in {Wrapper_reset(objs[k], native[objs[k].raw])} :
            /\ op' = "reset"
            /\ arg' = [setting |-> "none", v |-> NoVal]
            /\ res' = c.r
            /\ ffi' = c.calls
            /\ native' = [native EXCEPT ![objs[k].raw] = c.st]
            /\ UNCHANGED <<pre, pushed, buf, plen, repk, mem, heap, objs>>

\* a frame of 20 or of 120 ms is coded
CtlEncode ==
    \E frame_size \in {960, 5760} :
        \E e \in {Encoder_encode(objs[1], native[objs[1].raw],
                                 frame_size * objs[1].channels,
                                 [i \in 1..4 |-> StaleByte])} :
            /\ native[objs[1].raw].coded < MaxEncodes
            /\ op' = "encode"
            /\ arg' = [setting |-> "none", v |-> NoVal]
            /\ res' = e.r
            /\ ffi' = e.calls
            /\ native' = [native EXCEPT ![objs[1].raw] = e.st]
            /\ UNCHANGED <<pre, pushed, buf, plen, repk, mem, heap, objs>>

CtlNext ==
    \/ CtlSet
    \/ CtlGet
    \/ CtlReset
    \/ CtlEncode

CtlSpec == CtlInit /\ [][CtlNext]_vars

\* the values the setter of this setting took with success (at most one is
\* remembered)
LastSet(setting) ==
    {pushed[i].v : i \in {k \in 1..Len(pushed) : pushed[k].setting = setting}}

\* C23: after a setter call succeeded with v, the getter of the same setting
\* returns v, until the next successful call of that setter.
C23_CtlRoundTrip ==
    op = "get" => \A v \in LastSet(arg.setting) : res.ok /\ res.val = v

\* the bitrates OPUS_SET_BITRATE stores as they are
StoredAsGiven(setting, v) ==
    setting = "Encoder::bitrate"
        => /\ v.tag = "Custom"
           /\ v.bps >= 500
           /\ v.bps <= MaxBitratePerChannel * native[1].channels

\* C23, for the values libopus stores as given: every setting but the
\* bitrate, and the custom bitrates from 500 up to the largest one per channel
C23_StoredValuesRoundTrip ==
    op = "get"
        => \A v \in LastSet(arg.setting) :
               StoredAsGiven(arg.setting, v) => res.ok /\ res.val = v

\* the bitrate was set to Auto with success, a frame was coded, and the getter
\* reports a number of bits per second
C23_Witness ==
    /\ op = "get"
    /\ arg.setting = "Encoder::bitrate"
    /\ LastSet("Encoder::bitrate") = {BitrateAuto}
    /\ native[1].coded > 0
    /\ res.ok
    /\ res.val.tag = "Custom"

(***************************************************************************)
(* Threads: one thread owns a Repacketizer, one an Encoder and one a       *)
(* Decoder, and each calls its own value only.  The steps of the threads   *)
(* interleave in any order.  The two packet buffers in mem are plain byte  *)
(* buffers: between calls they can pass from one thread to another, so a   *)
(* packet the first thread pushed can later be the output buffer of the    *)
(* second.  pre records the calls of the encoder and decoder threads, and  *)
(* pushed the packets of the repacketizer thread, as each thread made them.*)
(***************************************************************************)
MaxThreadOps == 2

ThreadPackets == {<<0, 7>>, <<0, 7, 8>>}

ThreadGains == {0, 256}

ThInit ==
    /\ \E p1 \in ThreadPackets, p2 \in SecondPackets :
           mem = <<Buffer(p1), Buffer(p2)>>
    /\ repk = Repacketizer_new
    /\ pushed = <<>>
    /\ buf = <<>>
    /\ plen = 0
    /\ op = "new"
    /\ arg = NoArg
    /\ res = Ok(NoVal)
    /\ ffi = <<>>
    /\ pre = [enc |-> <<>>, dec |-> <<>>]
    /\ \E enc \in {Encoder_new(<<>>, 48000, 2, "Audio", TRUE)} :
        \E dec \in {Decoder_new(enc.heap, 48000, 2, TRUE)} :
            \E rp \in {Repacketizer_new_handle(dec.heap, TRUE)} :
                /\ heap = rp.heap
                /\ objs = enc.objs \o dec.objs \o rp.objs
                /\ native = <<opus_encoder_init(48000, 2),
                              opus_decoder_init(48000, 2)>>

\* the repacketizer thread pushes the packet in buffer i
ThPush ==
    \E i \in Slots :
        \E ret \in {Repacketizer_push(repk, Memory(mem), Base(i), mem[i].len)} :
            /\ Len(pushed) < MaxPushes \/ ~ret.r.ok
            /\ op' = "push"
            /\ arg' = [NoArg EXCEPT !.slot = i]
            /\ res' = ret.r
            /\ ffi' = ret.calls
            /\ repk' = ret.rp
            /\ pushed' = IF ret.r.ok THEN Append(pushed, PacketIn(i)) ELSE pushed
            /\ UNCHANGED <<buf, plen, mem, pre, heap, objs, native>>

\* the repacketizer thread writes the merged packet into a buffer of its own
ThOut ==
    \E ret \in {Repacketizer_out(repk, Repeat(0, OutBig), Memory(mem))} :
        /\ op' = "out"
        /\ arg' = [NoArg EXCEPT !.len = OutBig]
        /\ res' = ret.r
        /\ ffi' = ret.calls
        /\ buf' = ret.data
        /\ plen' = IF ret.r.ok THEN ret.r.val ELSE 0
        /\ UNCHANGED <<repk, pushed, mem, pre, heap, objs, native>>

\* the encoder thread codes a frame of 20 ms into buffer i
ThEncode ==
    \E i \in Slots :
        \E e \in {Encoder_encode(objs[1], native[objs[1].raw],
                                 960 * objs[1].channels, mem[i].bytes)} :
            /\ Len(pre.enc) < MaxThreadOps
            /\ op' = "encode"
            /\ arg' = [NoArg EXCEPT !.slot = i]
            /\ res' = e.r
            /\ ffi' = e.calls
            /\ native' = [native EXCEPT ![objs[1].raw] = e.st]
            /\ mem' = [mem EXCEPT ![i] = [bytes |-> e.output,
                                          len |-> IF e.r.ok THEN e.r.val ELSE @.len]]
            /\ pre' = [pre EXCEPT !.enc = Append(@, SlotSize)]
            /\ UNCHANGED <<repk, pushed, buf, plen, heap, objs>>

\* the decoder thread sets its gain
ThSetGain ==
    \E v \in ThreadGains :
        \E c \in {Wrapper_set(objs[2], native[objs[2].raw], "Decoder::gain", v)} :
            /\ Len(pre.dec) < MaxThreadOps
            /\ op' = "set_gain"
            /\ arg' = [NoArg EXCEPT !.len = v]
            /\ res' = c.r
            /\ ffi' = c.calls
            /\ native' = [native EXCEPT ![objs[2].raw] = c.st]
            /\ pre' = [pre EXCEPT !.dec = Append(@, v)]
            /\ UNCHANGED <<repk, pushed, buf, plen, mem, heap, objs>>

ThNext ==
    \/ ThPush
    \/ ThOut
    \/ ThEncode
    \/ ThSetGain

ThSpec == ThInit /\ [][ThNext]_vars

\* the same calls made by one thread alone: the encoder after coding into
\* the buffers logged, the decoder after the gains logged
RECURSIVE AloneEncoder(_)
AloneEncoder(log) ==
    IF log = <<>> THEN opus_encoder_init(48000, 2)
    ELSE Encoder_encode(objs[1], AloneEncoder(SubSeq(log, 1, Len(log) - 1)),
                        960 * objs[1].channels,
                        Repeat(0, log[Len(log)])).st

RECURSIVE AloneDecoder(_)
AloneDecoder(log) ==
    IF log = <<>> THEN opus_decoder_init(48000, 2)
    ELSE Wrapper_set(objs[2], AloneDecoder(SubSeq(log, 1, Len(log) - 1)),
                     "Decoder::gain", log[Len(log)]).st

\* the repacketizer thread alone: the packets it pushed lie in memory no
\* other thread uses
AloneMemory == Flatten([k \in 1..Len(pushed) |-> Buffer(pushed[k]).bytes])

RECURSIVE AloneRepacketizer(_)
AloneRepacketizer(k) ==
    IF k = 0 THEN Repacketizer_new
    ELSE Repacketizer_push(AloneRepacketizer(k - 1), AloneMemory,
                           (k - 1) * SlotSize, Len(pushed[k])).rp

AloneOut ==
    Repacketizer_out(AloneRepacketizer(Len(pushed)), Repeat(0, OutBig), AloneMemory)

\* C24: under every interleaving, the state of each value and the result of
\* its last call are those of its own thread's calls made alone in the same
\* order.
C24_IndependentInstances ==
    /\ native[objs[1].raw] = AloneEncoder(pre.enc)
    /\ native[objs[2].raw] = AloneDecoder(pre.dec)
    /\ repk.nb_frames = AloneRepacketizer(Len(pushed)).nb_frames
    /\ repk.len = AloneRepacketizer(Len(pushed)).len
    /\ op = "out" => res = AloneOut.r /\ buf = AloneOut.data

\* C24, while no packet buffer is written after a push that still holds its
\* frames
C24_ApartFromHeldBuffers ==
    Untouched => C24_IndependentInstances

\* the encoder thread coded into a buffer whose packet the repacketizer
\* thread had pushed, and out then wrote the merged packet
C24_Witness ==
    /\ op = "out"
    /\ res.ok
    /\ pre.enc # <<>>
    /\ ~Untouched
    /\ buf # AloneOut.data

====
